---- MODULE Spec2Model ----
(***************************************************************************)
(* AssignFlow (src/assignflow.py): the task ledger kept by DatabaseManager  *)
(* (tables students, tasks, task_details), the main window's current task,  *)
(* and the assistant session of AIChatWidget: a main (Qt event loop) thread  *)
(* and the worker threads that run _call_deepseek_api.                      *)
(*                                                                         *)
(* Spec      the ledger driven sequentially (one transaction per call).     *)
(* SpecChat  the assistant session: send, stream, tool rounds, cancel.      *)
(***************************************************************************)
EXTENDS Integers, Sequences, FiniteSets, TLC

\* ------------------------------------------------------------------ bounds
\* Calendar days the model lets pass (one task is created per day at most).
MaxDay == 2
\* Ledger operations in one run of Spec.
MaxOps == 6
\* Steps (of the main thread and of the workers together) in one run of SpecChat.
MaxSteps == 12
\* send_message calls (each starts one worker thread) in one run of the session.
MaxSends == 2
\* Rounds with tool calls the language model answers one request with.
MaxToolRounds == 1
\* Content fragments of one streamed response.
MaxFrags == 1
\* Tool calls of one streamed response.
MaxCalls == 1

\* Ledger operations and tool calls in one run of SpecTools.
MaxToolOps == 3
\* Rows of the students table in one get_students_by_id_range call.
MaxStored == 3

\* ------------------------------------------------------------- value sets
StudentIds == {"202301", "202302"}
Grades == {"A", "B"}
\* (name, class) pairs an add_student call is made with.
Profiles == {[name |-> "Zhang", class |-> "2023"], [name |-> "Li", class |-> "2024"]}
\* Task ids a caller may pass: AUTOINCREMENT gives 1, 2, ... (one task per day).
TaskIds == 1..MaxDay
\* SQL NULL / Python None.
NULL == "NULL"
NoTask == [id |-> 0, date |-> 0]

VARIABLES
    students,       \* table students: student_id -> [name, class] (UNIQUE student_id)
    tasks,          \* table tasks: set of [id, date]
    task_details,   \* table task_details: set of [task_id, student_id, status, grade]
    today,          \* datetime.date.today()
    current_task,   \* MainWindow.current_task
    lastOp,         \* history: the ledger operation that ran last, with its arguments
    everGraded,     \* history: the (task, student) keys set_grade was ever called for
    nops,           \* history: the number of steps taken so far
    messages,       \* AIChatWidget.messages
    is_generating,  \* AIChatWidget.is_generating (btn_cancel is enabled with it)
    cancelled,      \* AIChatWidget.cancelled
    input_enabled,  \* main.input_edit.isEnabled()
    ai_widget,      \* AIChatWidget._current_ai_widget: the placeholder bubble
    thread,         \* AIChatWidget.thread: index of the worker started last, 0 for None
    workers,        \* the worker threads: locals and position of _call_deepseek_api
    events,         \* Qt's queue of signals emitted by workers for the main thread
    mainpc,         \* the main thread: "loop" (event loop) or "join" (in thread.join)
    openai_ok,      \* whether `from openai import OpenAI` succeeds
    chatlog,        \* history of the session: what the claims about it refer to
    page,           \* MainWindow.stack.currentIndex()
    previous_page,  \* MainWindow.previous_page: the page return_to_previous goes to
    submit_page,    \* SubmitPage: task_id, display_classes
    grade_page,     \* GradePage: built (constructed by get_page(1)), task_id, current_class
    unknown_list,   \* MainWindow.unknown_list (SubmitPage.unknown_items is the same list)
    api_key,        \* whether the configuration has a deepseek_api_key
    routed,         \* history: what process_input did with the text entered last
    range_call      \* one call of get_students_by_id_range: its table, bounds and result

\* The index of the assistant's page in MainWindow.stack.
AiPage == 4

\* MainWindow.previous_page = None: no page is remembered.
NoPage == 5

PreviousPageForgotten(index, current) == NoPage

\* switch_page(index) from the page current, a different one: the page left
\* is remembered when the assistant's page is entered, else nothing is.
PreviousPageOnSwitch(index, current) ==
    IF index = AiPage THEN current ELSE NoPage

dbvars == <<students, tasks, task_details, today, current_task, lastOp, everGraded>>
chatvars == <<messages, is_generating, cancelled, input_enabled, ai_widget, thread,
              workers, events, mainpc, openai_ok, chatlog>>
winvars == <<page, previous_page, submit_page, grade_page, unknown_list, api_key, routed>>
vars == <<dbvars, chatvars, winvars, range_call, nops>>

\* ================================================================ the ledger
Roster == DOMAIN students

\* The row of task_details with key (t, s): UNIQUE(task_id, student_id).
HasRow(td, t, s) == \E r \in td : r.task_id = t /\ r.student_id = s
RowOf(td, t, s) == CHOOSE r \in td : r.task_id = t /\ r.student_id = s
Row(t, s, st, g) == [task_id |-> t, student_id |-> s, status |-> st, grade |-> g]

\* INSERT ... ON CONFLICT(student_id) DO UPDATE SET name, class.
AddStudent(st, s, p) ==
    [x \in (DOMAIN st) \cup {s} |-> IF x = s THEN p ELSE st[x]]

DeleteStudentRowsKept(td, s) == td

\* DELETE FROM task_details WHERE student_id = ?
DeleteStudentRows(td, s) == {r \in td : r.student_id # s}

\* DELETE FROM students WHERE student_id = ?
DeleteStudentRoster(st, s) == [x \in (DOMAIN st) \ {s} |-> st[x]]

\* SELECT * FROM tasks WHERE date = today; the rows found (fetchone takes one).
TasksOfDate(ts, d) == {t \in ts : t.date = d}

LatestTasksAnyRow(ts) == ts

\* SELECT * FROM tasks ORDER BY date DESC LIMIT 1: the candidates for the row.
LatestTasks(ts) == {t \in ts : \A u \in ts : u.date <= t.date}

\* AUTOINCREMENT: no task is deleted except by clear_all_data, which also
\* clears sqlite_sequence, so the next id is the number of tasks plus one.
NextTaskId(ts) == Cardinality(ts) + 1

EnsureTaskStudentsOneRow(st, td, t) ==
    LET total_students == Cardinality(DOMAIN st)
        existing == Cardinality({r \in td : r.task_id = t})
        missing_ids == {s \in DOMAIN st : ~HasRow(td, t, s)}
    IN  IF existing < total_students /\ missing_ids # {}
        THEN td \cup {Row(t, CHOOSE s \in missing_ids : TRUE, "missing", NULL)}
        ELSE td

\* ensure_task_students: only when the task has fewer rows than there are
\* students, insert a 'missing' row for every student without one.
EnsureTaskStudents(st, td, t) ==
    LET total_students == Cardinality(DOMAIN st)
        existing == Cardinality({r \in td : r.task_id = t})
        missing_ids == {s \in DOMAIN st : ~HasRow(td, t, s)}
    IN  IF existing < total_students
        THEN td \cup {Row(t, s, "missing", NULL) : s \in missing_ids}
        ELSE td

ResetRowsKeepGrade(td, t) ==
    {IF r.task_id = t THEN Row(t, r.student_id, "missing", r.grade) ELSE r : r \in td}

\* reset_today_task's UPDATE task_details SET status="missing", grade=NULL WHERE task_id=?
ResetRows(td, t) ==
    {IF r.task_id = t THEN Row(t, r.student_id, "missing", NULL) ELSE r : r \in td}

SubmitStudentMissing(td, t, s) ==
    IF HasRow(td, t, s)
    THEN td
    ELSE td \cup {Row(t, s, "missing", NULL)}

\* submit_student: INSERT (status 'submitted', grade NULL) ON CONFLICT DO UPDATE
\* SET status='submitted' (the grade column is not in the SET list).
SubmitStudent(td, t, s) ==
    IF HasRow(td, t, s)
    THEN (td \ {RowOf(td, t, s)}) \cup {Row(t, s, "submitted", RowOf(td, t, s).grade)}
    ELSE td \cup {Row(t, s, "submitted", NULL)}

SetGradeKeepsStatus(td, t, s, g) ==
    IF HasRow(td, t, s)
    THEN (td \ {RowOf(td, t, s)}) \cup {Row(t, s, RowOf(td, t, s).status, g)}
    ELSE td \cup {Row(t, s, "submitted", g)}

\* set_grade: INSERT (status 'submitted', grade) ON CONFLICT DO UPDATE SET
\* grade=excluded.grade, status='submitted'.
SetGrade(td, t, s, g) ==
    (td \ {r \in td : r.task_id = t /\ r.student_id = s}) \cup {Row(t, s, "submitted", g)}

\* get_task_details' SELECT: students LEFT JOIN task_details of the task,
\* COALESCE(td.status, 'missing'), td.grade (the ORDER BY is not modelled:
\* the result is the set of its rows).
TaskDetailsQuery(st, td, t) ==
    {[student_id |-> s, name |-> st[s].name, class |-> st[s].class,
      status |-> IF HasRow(td, t, s) THEN RowOf(td, t, s).status ELSE "missing",
      grade |-> IF HasRow(td, t, s) THEN RowOf(td, t, s).grade ELSE NULL] :
        s \in DOMAIN st}

\* get_task_details: ensure_task_students, then the query.
GetTaskDetails(st, td, t) == TaskDetailsQuery(st, EnsureTaskStudents(st, td, t), t)

\* get_student_history: tasks LEFT JOIN task_details of the student: one row
\* per task, with status and grade NULL where the student has no row.
GetStudentHistory(ts, td, s) ==
    {[task_id |-> t.id,
      status |-> IF HasRow(td, t.id, s) THEN RowOf(td, t.id, s).status ELSE NULL,
      grade |-> IF HasRow(td, t.id, s) THEN RowOf(td, t.id, s).grade ELSE NULL] :
        t \in ts}

\* dict.get(key, default): the default only when the key is absent; a key
\* whose value is None gives None.
DictGet(rec, key, default) == IF key \in DOMAIN rec THEN rec[key] ELSE default

\* Python truth of a grade: None and the empty string are false.
Truthy(g) == g # NULL /\ g # ""

\* {h['task_id']: h for h in get_student_history(s)}.get(t, {}): the row of
\* task t, the empty dict when the history has none.
HistoryGet(history, t) ==
    IF \E h \in history : h.task_id = t
    THEN CHOOSE h \in history : h.task_id = t
    ELSE << >>

\* The cell texts of the tables: not handed in, handed in.
CellMissing == "missing"
CellSubmitted == "submitted"

\* The cell of student s and task t in the class matrix of StudentPage and in
\* ExportPage.update_preview: status = rec.get('status', 'missing'),
\* grade = rec.get('grade', ''); missing, else the grade, else submitted.
PreviewCell(ts, td, t, s) ==
    LET rec == HistoryGet(GetStudentHistory(ts, td, s), t)
        status == DictGet(rec, "status", "missing")
        grade == DictGet(rec, "grade", "")
    IN  IF status = "missing" THEN CellMissing
        ELSE IF Truthy(grade) THEN grade
        ELSE CellSubmitted

\* The status column of StudentDetailWidget.refresh_data for task t.
DetailStatus(ts, td, t, s) ==
    IF HistoryGet(GetStudentHistory(ts, td, s), t).status = "submitted"
    THEN CellSubmitted
    ELSE CellMissing

\* A row of task_details that stands for "no row joined" in a LEFT JOIN.
NoRow == Row(0, "", NULL, NULL)

\* get_submitted_students: ensure_task_students, then task_details JOIN
\* students WHERE task_id = ? AND status = 'submitted': one entry per joined
\* row; of (history) is that row, the SELECT list has the student's columns.
GetSubmittedStudents(st, td, t) ==
    {[student_id |-> r.student_id, name |-> st[r.student_id].name,
      class |-> st[r.student_id].class, of |-> r] :
        r \in {x \in EnsureTaskStudents(st, td, t) :
                 x.task_id = t /\ x.status = "submitted" /\ x.student_id \in DOMAIN st}}

\* The rows students LEFT JOIN task_details ON student_id AND task_id = ?
\* gives for student s: its rows under the task, or one all-NULL row.
LeftJoinRows(td, t, s) ==
    IF HasRow(td, t, s) THEN {r \in td : r.task_id = t /\ r.student_id = s} ELSE {NoRow}

GetMissingStudentsRowsOnly(st, td, t, class_name) ==
    {[student_id |-> s, name |-> st[s].name, class |-> st[s].class, of |-> r] :
        <<s, r>> \in {p \in (DOMAIN st) \X (EnsureTaskStudents(st, td, t) \cup {NoRow}) :
                        /\ p[2] \in LeftJoinRows(EnsureTaskStudents(st, td, t), t, p[1])
                        /\ p[2].status = "missing"
                        /\ (class_name # NULL => st[p[1]].class = class_name)}}

\* get_missing_students: ensure_task_students, then students LEFT JOIN
\* task_details WHERE (td.status IS NULL OR td.status = 'missing') [AND
\* s.class = ?]; class_name is NULL when no class is given.
GetMissingStudents(st, td, t, class_name) ==
    {[student_id |-> s, name |-> st[s].name, class |-> st[s].class, of |-> r] :
        <<s, r>> \in {p \in (DOMAIN st) \X (EnsureTaskStudents(st, td, t) \cup {NoRow}) :
                        /\ p[2] \in LeftJoinRows(EnsureTaskStudents(st, td, t), t, p[1])
                        /\ (p[2].status = NULL \/ p[2].status = "missing")
                        /\ (class_name # NULL => st[p[1]].class = class_name)}}

NoOp == [op |-> "none", task |-> 0, sid |-> "", grade |-> NULL, had |-> FALSE,
         prev |-> [status |-> NULL, grade |-> NULL],
         tool |-> "", result |-> "", steps |-> << >>]
Op(o, t, s, g) ==
    [op |-> o, task |-> t, sid |-> s, grade |-> g,
     had |-> HasRow(task_details, t, s),
     prev |-> IF HasRow(task_details, t, s)
              THEN [status |-> RowOf(task_details, t, s).status,
                    grade |-> RowOf(task_details, t, s).grade]
              ELSE [status |-> NULL, grade |-> NULL],
     tool |-> "", result |-> "", steps |-> << >>]

\* DatabaseManager.add_student
add_student(s, p) ==
    /\ students' = AddStudent(students, s, p)
    /\ lastOp' = Op("add_student", 0, s, NULL)
    /\ UNCHANGED <<tasks, task_details, today, current_task, everGraded>>
    /\ UNCHANGED winvars

\* DatabaseManager.delete_student
delete_student(s) ==
    /\ task_details' = DeleteStudentRows(task_details, s)
    /\ students' = DeleteStudentRoster(students, s)
    /\ lastOp' = [Op("delete_student", 0, s, NULL) EXCEPT
                    !.had = \E r \in task_details : r.student_id = s]
    /\ UNCHANGED <<tasks, today, current_task, everGraded>>
    /\ UNCHANGED winvars

submit_student_replaces(t, s) ==
    /\ task_details' = (task_details \ {r \in task_details : r.task_id = t /\ r.student_id = s})
                           \cup {Row(t, s, "submitted", NULL)}
    /\ lastOp' = Op("submit_student", t, s, NULL)
    /\ UNCHANGED <<students, tasks, today, current_task, everGraded>>
    /\ UNCHANGED winvars

\* DatabaseManager.submit_student
submit_student(t, s) ==
    /\ task_details' = SubmitStudent(task_details, t, s)
    /\ lastOp' = Op("submit_student", t, s, NULL)
    /\ UNCHANGED <<students, tasks, today, current_task, everGraded>>
    /\ UNCHANGED winvars

set_grade_unless_present(t, s, g) ==
    /\ task_details' = IF HasRow(task_details, t, s)
                       THEN task_details
                       ELSE task_details \cup {Row(t, s, "submitted", g)}
    /\ everGraded' = everGraded \cup {<<t, s>>}
    /\ lastOp' = Op("set_grade", t, s, g)
    /\ UNCHANGED <<students, tasks, today, current_task>>
    /\ UNCHANGED winvars

\* DatabaseManager.set_grade
set_grade(t, s, g) ==
    /\ task_details' = SetGrade(task_details, t, s, g)
    /\ everGraded' = everGraded \cup {<<t, s>>}
    /\ lastOp' = Op("set_grade", t, s, g)
    /\ UNCHANGED <<students, tasks, today, current_task>>
    /\ UNCHANGED winvars

\* DatabaseManager.get_task_details: the ensure_task_students it runs first
\* is its effect on the store.
get_task_details(t) ==
    /\ task_details' = EnsureTaskStudents(students, task_details, t)
    /\ lastOp' = Op("get_task_details", t, "", NULL)
    /\ UNCHANGED <<students, tasks, today, current_task, everGraded>>
    /\ UNCHANGED winvars

\* DatabaseManager.ensure_task_students called on its own; had (history) is
\* whether it inserted a row.
ensure_task_students(t) ==
    /\ task_details' = EnsureTaskStudents(students, task_details, t)
    /\ lastOp' = [Op("ensure_task_students", t, "", NULL) EXCEPT
                    !.had = EnsureTaskStudents(students, task_details, t) # task_details]
    /\ UNCHANGED <<students, tasks, today, current_task, everGraded>>
    /\ UNCHANGED winvars

\* get_or_create_today_task on the tasks table: <<the task returned, the table>>.
GetOrCreateTodayTask(ts, d) ==
    IF TasksOfDate(ts, d) # {}
    THEN {<<t, ts>> : t \in TasksOfDate(ts, d)}
    ELSE {<<[id |-> NextTaskId(ts), date |-> d], ts \cup {[id |-> NextTaskId(ts), date |-> d]}>>}

\* get_current_task on the tasks table: <<the task returned, the table>>. The
\* row of the latest date when the table has a row, else what
\* get_or_create_today_task returns.
GetCurrentTask(ts, d) ==
    IF ts # {}
    THEN {<<t, ts>> : t \in LatestTasks(ts)}
    ELSE GetOrCreateTodayTask(ts, d)

ResetTodayTaskEverywhere(st, td, t) ==
    {Row(r.task_id, r.student_id, "missing", NULL) : r \in EnsureTaskStudents(st, td, t)}

\* reset_today_task on task_details, for today's task t: ensure_task_students(t),
\* then the UPDATE.
ResetTodayTask(st, td, t) == ResetRows(EnsureTaskStudents(st, td, t), t)

NoGradePage == [built |-> FALSE, task_id |-> 0, current_class |-> NULL]

\* SubmitPage.refresh_data: self.task_id = current_task['id']; with classes on
\* display it lists through get_submitted_students / get_missing_students,
\* which run ensure_task_students.
SubmitRefresh(sp, cur) == [sp EXCEPT !.task_id = cur.id]
SubmitRefreshRows(st, td, sp, cur) ==
    IF cur # NoTask /\ sp.display_classes # {}
    THEN EnsureTaskStudents(st, td, cur.id)
    ELSE td

\* GradePage.refresh_data (the page exists once get_page(1) has built it):
\* nothing without a current class, else self.task_id = current_task['id']
\* and get_task_details, which runs ensure_task_students.
GradeRefresh(gp, cur) ==
    IF gp.built /\ cur # NoTask /\ gp.current_class # NULL
    THEN [gp EXCEPT !.task_id = cur.id]
    ELSE gp
GradeRefreshRows(st, td, gp, cur) ==
    IF gp.built /\ cur # NoTask /\ gp.current_class # NULL
    THEN EnsureTaskStudents(st, td, cur.id)
    ELSE td

\* MainWindow.refresh_all_pages on task_details: refresh_data of every page in
\* the stack (StudentPage and ExportPage only read the students table).
RefreshAllRows(st, td, sp, gp, cur) ==
    GradeRefreshRows(st, SubmitRefreshRows(st, td, sp, cur), gp, cur)

\* MainWindow.create_new_task (the question answered Yes): reset_today_task,
\* current_task = get_current_task(), unknown_list.clear(), refresh_all_pages
\* and switch_page(0).
create_new_task ==
    \E got \in GetOrCreateTodayTask(tasks, today) :
        /\ tasks' = got[2]
        /\ current_task' \in LatestTasks(got[2])
        /\ task_details' =
              RefreshAllRows(students, ResetTodayTask(students, task_details, got[1].id),
                             submit_page, grade_page, current_task')
        /\ lastOp' = [Op("create_new_task", got[1].id, "", NULL) EXCEPT
                        !.had = \E r \in task_details :
                                   /\ r.task_id = got[1].id /\ r.grade # NULL
                                   /\ r.student_id \in Roster]
        /\ unknown_list' = << >>
        /\ submit_page' = SubmitRefresh(submit_page, current_task')
        /\ grade_page' = GradeRefresh(grade_page, current_task')
        /\ page' = 0
        /\ previous_page' = IF page = 0 THEN previous_page ELSE PreviousPageOnSwitch(0, page)
        /\ UNCHANGED <<students, today, everGraded, api_key, routed>>

\* The program is started again on the same database: DatabaseManager.__init__
\* runs init_db, whose last statements DELETE FROM tasks, students and
\* sqlite_sequence (task_details is left as it is), and MainWindow.__init__
\* sets current_task = get_current_task(), which finds no task and creates
\* today's. had (history) is whether a task dated today existed before.
main_window_init ==
    \E got \in GetCurrentTask({}, today) :
        /\ students' = << >>
        /\ tasks' = got[2]
        /\ current_task' = got[1]
        /\ lastOp' = [Op("get_current_task", got[1].id, "", NULL) EXCEPT
                        !.had = TasksOfDate(tasks, today) # {}]
        /\ unknown_list' = << >>
        /\ submit_page' = [task_id |-> got[1].id, display_classes |-> {}]
        /\ grade_page' = NoGradePage
        /\ page' = 0
        /\ previous_page' = NoPage
        /\ UNCHANGED <<task_details, today, everGraded, api_key, routed>>

\* MainWindow.clear_all_data (the question answered Yes): the three tables and
\* sqlite_sequence are emptied, current_task = get_or_create_today_task().
clear_all_data ==
    \E got \in GetOrCreateTodayTask({}, today) :
        /\ students' = << >>
        /\ task_details' = {}
        /\ tasks' = got[2]
        /\ current_task' = got[1]
        /\ everGraded' = {}
        /\ lastOp' = Op("clear_all_data", got[1].id, "", NULL)
        /\ unknown_list' = << >>
        /\ submit_page' = SubmitRefresh(submit_page, got[1])
        /\ grade_page' = GradeRefresh(grade_page, got[1])
        /\ page' = 0
        /\ previous_page' = IF page = 0 THEN previous_page ELSE PreviousPageOnSwitch(0, page)
        /\ UNCHANGED <<today, api_key, routed>>

\* The calendar day changes while the program runs (or between two runs).
day_passes ==
    /\ today < MaxDay
    /\ today' = today + 1
    /\ lastOp' = NoOp
    /\ UNCHANGED <<students, tasks, task_details, current_task, everGraded>>
    /\ UNCHANGED winvars

ExistingTaskIds == {t.id : t \in tasks}

\* The ledger after MainWindow.__init__ on a new database: get_current_task
\* has created today's task.
InitDb ==
    /\ students = << >>
    /\ today = 1
    /\ tasks = {[id |-> 1, date |-> 1]}
    /\ task_details = {}
    /\ current_task = [id |-> 1, date |-> 1]
    /\ lastOp = NoOp
    /\ everGraded = {}
    /\ nops = 0

InitChat ==
    /\ messages = << >>
    /\ is_generating = FALSE
    /\ cancelled = FALSE
    /\ input_enabled = TRUE
    /\ ai_widget = 0
    /\ thread = 0
    /\ workers = << >>
    /\ events = << >>
    /\ mainpc = "loop"
    /\ chatlog = [cancel |-> 0, streaming |-> FALSE, round_start |-> << >>,
                  cancelled_reqs |-> {}, inflight |-> {}]

NoRoute == [text |-> "", page |-> 0, to |-> "none"]
NoRangeCall == [students |-> << >>, start_id |-> << >>, end_id |-> << >>,
                result |-> << >>, called |-> FALSE]

\* The window after MainWindow.__init__ and init_ui: the submit page is built
\* and shown, the other pages are placeholders.
InitWindow ==
    /\ page = 0
    /\ previous_page = NoPage
    /\ submit_page = [task_id |-> 1, display_classes |-> {}]
    /\ grade_page = NoGradePage
    /\ unknown_list = << >>
    /\ routed = NoRoute

Init ==
    /\ InitDb /\ InitChat /\ InitWindow
    /\ openai_ok = TRUE /\ api_key = TRUE /\ range_call = NoRangeCall

NextDb ==
    \/ \E s \in StudentIds, p \in Profiles : add_student(s, p)
    \/ \E s \in StudentIds : delete_student(s)
    \/ \E t \in ExistingTaskIds, s \in StudentIds : submit_student(t, s)
    \/ \E t \in ExistingTaskIds, s \in StudentIds, g \in Grades : set_grade(t, s, g)
    \/ \E t \in TaskIds : get_task_details(t)
    \/ \E t \in TaskIds : ensure_task_students(t)
    \/ create_new_task
    \/ main_window_init
    \/ clear_all_data
    \/ day_passes

\* One ledger operation, each a transaction of its own.
Next ==
    /\ nops < MaxOps
    /\ nops' = nops + 1
    /\ NextDb
    /\ UNCHANGED <<chatvars, range_call>>

Spec == Init /\ [][Next]_vars

\* ================================================= get_students_by_id_range
\* Student ids as the text they are, a sequence of digits: of different
\* lengths and with a leading zero, so that the order of the text and the
\* order of the integers differ.
RangeIds == {<<2>>, <<9>>, <<1, 0>>, <<1, 2>>, <<0, 9>>}

\* The students table in rowid order: the ids are UNIQUE.
StoredOrders ==
    {st \in UNION {[1..n -> RangeIds] : n \in 0..MaxStored} :
        \A i, j \in 1..Len(st) : i # j => st[i] # st[j]}

\* CAST(student_id AS INTEGER) / int(start_id): the number the digits write.
RECURSIVE CastInteger(_)
CastInteger(id) ==
    IF id = << >> THEN 0
    ELSE 10 * CastInteger(SubSeq(id, 1, Len(id) - 1)) + id[Len(id)]

\* The comparison of two TEXT values (BINARY collation): character by
\* character, a proper prefix first.
RECURSIVE TextLess(_, _)
TextLess(a, b) ==
    IF a = << >> THEN b # << >>
    ELSE IF b = << >> THEN FALSE
    ELSE IF a[1] # b[1] THEN a[1] < b[1]
    ELSE TextLess(Tail(a), Tail(b))

OrderByRowid(rows) == rows

\* ORDER BY student_id: the row with the least text first, then the rest.
RECURSIVE OrderByStudentId(_)
OrderByStudentId(rows) ==
    IF rows = << >> THEN << >>
    ELSE LET i == CHOOSE k \in 1..Len(rows) :
                      \A j \in 1..Len(rows) : j # k => TextLess(rows[k], rows[j])
         IN  <<rows[i]>> \o OrderByStudentId(SubSeq(rows, 1, i - 1) \o SubSeq(rows, i + 1, Len(rows)))

\* get_students_by_id_range: SELECT * FROM students WHERE CAST(student_id AS
\* INTEGER) BETWEEN int(start_id) AND int(end_id) ORDER BY student_id.
GetStudentsByIdRange(st, start_id, end_id) ==
    LET Between(id) == /\ CastInteger(start_id) <= CastInteger(id)
                       /\ CastInteger(id) <= CastInteger(end_id)
    IN  OrderByStudentId(SelectSeq(st, Between))

\* DatabaseManager.get_students_by_id_range, called once on the table drawn.
get_students_by_id_range ==
    /\ ~range_call.called
    /\ range_call' = [range_call EXCEPT
                        !.result = GetStudentsByIdRange(range_call.students,
                                       range_call.start_id, range_call.end_id),
                        !.called = TRUE]
    /\ UNCHANGED <<dbvars, chatvars, winvars, nops>>

InitRange ==
    /\ InitDb /\ InitChat /\ InitWindow
    /\ openai_ok = TRUE /\ api_key = TRUE
    /\ range_call \in {[students |-> st, start_id |-> lo, end_id |-> hi,
                        result |-> << >>, called |-> FALSE] :
                          st \in StoredOrders, lo \in RangeIds, hi \in RangeIds}

NextRange == get_students_by_id_range

SpecRange == InitRange /\ [][NextRange]_vars

\* ====================================================== the assistant session
Fragments == {"a", "b"}
\* Tool names the language model calls: one of the catalogue, one that is not.
ToolNames == {"mark_student_submitted", "no_such_tool"}
\* The arguments of a call, a JSON object: keys are the keys it has, the
\* other fields their values (a default where the key is absent).
ToolArgs(keys, sid, grade, name, class, task_id) ==
    [keys |-> keys, student_id |-> sid, grade |-> grade, name |-> name,
     class |-> class, task_id |-> task_id]
ArgStudent == "202301"
\* The arguments text of a call arrives in pieces that are concatenated: here
\* the two pieces of {"student_id": "202301"}, the first modelled by the keys
\* and values it writes, the second the closing brace.
ArgOpen == ToolArgs({"student_id"}, ArgStudent, NULL, "", "", 0)
ArgClose == "}"
NoId == <<0, 0, 0>>
NoWidget == [req |-> 0, text |-> << >>]

\* One conversation turn; req (history) is the request whose send_message or
\* worker appended it.
Turn(role, w, calls, id, content) ==
    [role |-> role, req |-> w, calls |-> calls, call_id |-> id, content |-> content]

\* The locals of one _call_deepseek_api run; len0 (history) is the length of
\* messages before the request's send_message, emitted (history) whether the
\* run has emitted finish_message_signal, fault (history) what raised the
\* exception that ended it.
NewWorker(n) ==
    [pc |-> "send", round |-> 0, full_response |-> << >>, tool_calls |-> << >>,
     tool_messages |-> << >>, messages_copy |-> << >>, len0 |-> n, emitted |-> FALSE,
     fault |-> "none"]

WorkerIds == 1..Len(workers)
Alive(w) == workers[w].pc \notin {"done", "crashed"}

\* json.loads(arguments): the text parses when it is the whole object, the
\* opening piece and the closing brace; the value is the object written.
JsonLoads(args) == Len(args) = 2
ParsedArgs(args) == args[1]

\* MainWindow.refresh_all_pages on task_details: a page that lists the current
\* task (SubmitPage with classes on display, GradePage with a class chosen)
\* runs ensure_task_students through its query; listing says whether one does.
RefreshAllPages(st, td, cur, listing) ==
    IF listing /\ cur # NoTask THEN EnsureTaskStudents(st, td, cur.id) ELSE td

MutatingTools == {"mark_student_submitted", "set_student_grade", "add_student",
                  "update_student", "delete_student"}
ReadOnlyTools == {"get_student_info", "get_students_by_class", "get_students_by_id_range",
                  "get_all_classes", "get_today_stats", "get_all_tasks",
                  "get_task_details", "get_student_history", "export_current_class"}

\* The keys a branch of _execute_tool reads with args[...] (a KeyError when
\* one is absent; args.get(...) reads the others).
RequiredKeys(name) ==
    CASE name \in {"get_student_info", "get_student_history", "mark_student_submitted",
                   "update_student", "delete_student"} -> {"student_id"}
      [] name = "set_student_grade" -> {"student_id", "grade"}
      [] name = "add_student" -> {"student_id", "name"}
      [] name = "get_students_by_class" -> {"class_name"}
      [] name = "get_students_by_id_range" -> {"start_id", "end_id"}
      [] name = "get_task_details" -> {"task_id"}
      [] OTHER -> {}

HandlerCallsNoRefresh(name) ==
    CASE name = "mark_student_submitted" -> <<"submit_student", "refresh_all_pages">>
      [] name = "set_student_grade" -> <<"set_grade", "refresh_all_pages">>
      [] name = "add_student" -> <<"add_student", "refresh_all_pages">>
      [] name = "update_student" -> <<"update_student", "refresh_all_pages">>
      [] name = "delete_student" -> <<"delete_student">>
      [] name = "get_today_stats" -> <<"get_today_stats">>
      [] name = "get_task_details" -> <<"get_task_details">>
      [] OTHER -> << >>

\* The calls a branch of _execute_tool makes that can change the store or the
\* pages, in the order it makes them (the read-only queries of the students
\* and tasks tables are left out).
HandlerCalls(name) ==
    CASE name = "mark_student_submitted" -> <<"submit_student", "refresh_all_pages">>
      [] name = "set_student_grade" -> <<"set_grade", "refresh_all_pages">>
      [] name = "add_student" -> <<"add_student", "refresh_all_pages">>
      [] name = "update_student" -> <<"update_student", "refresh_all_pages">>
      [] name = "delete_student" -> <<"delete_student", "refresh_all_pages">>
      [] name = "get_today_stats" -> <<"get_today_stats">>
      [] name = "get_task_details" -> <<"get_task_details">>
      [] OTHER -> << >>

\* update_student: UPDATE students SET name / class WHERE student_id = ?, each
\* only when the value is given.
UpdateStudent(st, s, a) ==
    IF s \in DOMAIN st
    THEN [st EXCEPT ![s] = [name |-> IF "name" \in a.keys THEN a.name ELSE @.name,
                            class |-> IF "class" \in a.keys THEN a.class ELSE @.class]]
    ELSE st

\* The class add_student's branch gives a student when none is passed:
\* student_id[:4] + "班" (both ids of the model begin with 2023).
DefaultClass(sid) == "2023班"

\* One call of a handler on the store db = [students, tasks, task_details].
ApplyCall(c, a, db, cur, d, listing) ==
    CASE c = "submit_student" ->
           [db EXCEPT !.task_details = SubmitStudent(@, cur.id, a.student_id)]
      [] c = "set_grade" ->
           [db EXCEPT !.task_details = SetGrade(@, cur.id, a.student_id, a.grade)]
      [] c = "add_student" ->
           [db EXCEPT !.students = AddStudent(@, a.student_id,
                [name |-> a.name,
                 class |-> IF "class" \in a.keys THEN a.class ELSE DefaultClass(a.student_id)])]
      [] c = "update_student" ->
           [db EXCEPT !.students = UpdateStudent(@, a.student_id, a)]
      [] c = "delete_student" ->
           [db EXCEPT !.task_details = DeleteStudentRows(@, a.student_id),
                      !.students = DeleteStudentRoster(@, a.student_id)]
      [] c = "refresh_all_pages" ->
           [db EXCEPT !.task_details = RefreshAllPages(db.students, @, cur, listing)]
      [] c = "get_today_stats" ->
           LET got == CHOOSE g \in GetCurrentTask(db.tasks, d) : TRUE
           IN  [db EXCEPT !.tasks = got[2],
                          !.task_details = EnsureTaskStudents(db.students, @, got[1].id)]
      [] c = "get_task_details" ->
           [db EXCEPT !.task_details = EnsureTaskStudents(db.students, @, a.task_id)]

RECURSIVE ApplyCalls(_, _, _, _, _, _)
ApplyCalls(cs, a, db, cur, d, listing) ==
    IF cs = << >> THEN db
    ELSE ApplyCalls(Tail(cs), a, ApplyCall(Head(cs), a, db, cur, d, listing), cur, d, listing)

\* _execute_tool(tool_call) on the store db: raised when the exception leaves
\* the function, else the kind of text returned, the store after the call and
\* (history) the calls made.
ExecuteTool(call, db, cur, d, listing) ==
    IF ~JsonLoads(call.arguments)
    THEN [raised |-> TRUE, result |-> "", db |-> db, steps |-> << >>]
    ELSE LET a == ParsedArgs(call.arguments)
             name == call.name
         IN  IF name \notin MutatingTools \cup ReadOnlyTools
             THEN [raised |-> FALSE, result |-> "unknown tool", db |-> db, steps |-> << >>]
             ELSE IF name \in {"mark_student_submitted", "set_student_grade"} /\ cur = NoTask
             THEN [raised |-> FALSE, result |-> "no current task", db |-> db, steps |-> << >>]
             ELSE IF ~(RequiredKeys(name) \subseteq a.keys)
             THEN [raised |-> FALSE, result |-> "error", db |-> db, steps |-> << >>]
             ELSE [raised |-> FALSE, result |-> "ok",
                   db |-> ApplyCalls(HandlerCalls(name), a, db, cur, d, listing),
                   steps |-> HandlerCalls(name)]

Emit(kind, w, text, is_system) ==
    Append(events, [kind |-> kind, w |-> w, text |-> text, is_system |-> is_system,
                    round |-> workers[w].round])

\* The ids of the tool calls of worker w's round while a handler of the round
\* has still to return (the tool turns of the round are not in messages yet).
InFlightCalls(w) ==
    IF workers[w].pc = "exec" /\ Len(workers[w].tool_messages) < Len(workers[w].tool_calls)
    THEN {workers[w].tool_calls[i].id : i \in 1..Len(workers[w].tool_calls)}
    ELSE {}

\* ---- the main thread
\* AIChatWidget.send_message, reached from process_input: the input field is
\* enabled and an API key is configured.
send_message ==
    /\ mainpc = "loop"
    /\ input_enabled
    /\ Len(workers) < MaxSends
    /\ messages' = Append(messages, Turn("user", Len(workers) + 1, << >>, NoId, << >>))
    /\ is_generating' = TRUE
    /\ cancelled' = FALSE
    /\ input_enabled' = FALSE
    /\ ai_widget' = [req |-> Len(workers) + 1, text |-> << >>]
    /\ workers' = Append(workers, NewWorker(Len(messages)))
    /\ thread' = Len(workers) + 1
    /\ chatlog' = [chatlog EXCEPT !.cancel = 0, !.streaming = FALSE]
    /\ UNCHANGED <<events, mainpc, openai_ok, dbvars>>

\* AIChatWidget.cancel_generation up to thread.join(timeout=1.0): the button
\* that calls it is enabled between send_message and the end of the request.
cancel_generation_begin ==
    /\ mainpc = "loop"
    /\ is_generating
    /\ cancelled' = TRUE
    /\ is_generating' = FALSE
    /\ input_enabled' = TRUE
    /\ chatlog' = [chatlog EXCEPT
                     !.cancel = thread,
                     !.streaming = workers[thread].pc = "stream",
                     !.round_start = workers[thread].messages_copy,
                     !.cancelled_reqs = @ \cup {thread},
                     !.inflight = @ \cup InFlightCalls(thread)]
    /\ IF Alive(thread)
       THEN mainpc' = "join" /\ UNCHANGED ai_widget
       ELSE mainpc' = "loop" /\ ai_widget' = NoWidget
    /\ UNCHANGED <<messages, thread, workers, events, openai_ok, dbvars>>

\* cancel_generation after the join: the worker has ended, or the second has
\* passed with the worker still blocked on the stream.
cancel_generation_end ==
    /\ mainpc = "join"
    /\ mainpc' = "loop"
    /\ ai_widget' = NoWidget
    /\ UNCHANGED <<messages, is_generating, cancelled, input_enabled, thread, workers,
                   events, openai_ok, chatlog, dbvars>>

\* AIChatWidget._update_display_ui, run by the event loop for a queued
\* update_message_signal.
update_display_ui ==
    /\ mainpc = "loop"
    /\ events # << >>
    /\ Head(events).kind = "update"
    /\ events' = Tail(events)
    /\ ai_widget' = IF ai_widget # NoWidget
                    THEN [ai_widget EXCEPT !.text = Head(events).text]
                    ELSE ai_widget
    /\ UNCHANGED <<messages, is_generating, cancelled, input_enabled, thread, workers,
                   mainpc, openai_ok, chatlog, dbvars>>

\* AIChatWidget._finish_message_ui, run by the event loop for a queued
\* finish_message_signal.
finish_message_ui ==
    /\ mainpc = "loop"
    /\ events # << >>
    /\ Head(events).kind = "finish"
    /\ events' = Tail(events)
    /\ is_generating' = FALSE
    /\ input_enabled' = TRUE
    /\ ai_widget' = NoWidget
    /\ UNCHANGED <<messages, cancelled, thread, workers, mainpc, openai_ok, chatlog, dbvars>>

\* ---- a worker thread: _call_deepseek_api
SetW(w, rec) == workers' = [workers EXCEPT ![w] = rec]

\* `from openai import OpenAI` raises ImportError: the message is emitted and
\* the run returns.
worker_import_error(w) ==
    /\ workers[w].pc = "send"
    /\ workers[w].round = 0
    /\ ~openai_ok
    /\ SetW(w, [workers[w] EXCEPT !.pc = "done", !.emitted = TRUE])
    /\ events' = Emit("finish", w, << >>, TRUE)
    /\ UNCHANGED <<messages, is_generating, cancelled, input_enabled, ai_widget, thread,
                   mainpc, openai_ok, chatlog, dbvars>>

\* The head of the while loop: messages_copy under the lock, then
\* client.chat.completions.create(...), which returns the stream.
worker_send(w) ==
    /\ workers[w].pc = "send"
    /\ openai_ok
    /\ SetW(w, [workers[w] EXCEPT !.pc = "stream", !.messages_copy = messages,
                                  !.full_response = << >>, !.tool_calls = << >>,
                                  !.tool_messages = << >>])
    /\ UNCHANGED <<messages, is_generating, cancelled, input_enabled, ai_widget, thread,
                   events, mainpc, openai_ok, chatlog, dbvars>>

worker_fault_commits_partial(w) ==
    /\ workers[w].pc \in {"send", "stream"}
    /\ openai_ok
    /\ SetW(w, [workers[w] EXCEPT !.pc = "crashed", !.fault = "network"])
    /\ messages' = Append(messages, Turn("assistant", w, << >>, NoId, workers[w].full_response))
    /\ UNCHANGED <<is_generating, cancelled, input_enabled, ai_widget, thread,
                   events, mainpc, openai_ok, chatlog, dbvars>>

\* create(...) or the iteration of the stream raises (a network or stream
\* fault): nothing in _call_deepseek_api catches it, the thread ends.
worker_fault(w) ==
    /\ workers[w].pc \in {"send", "stream"}
    /\ openai_ok
    /\ SetW(w, [workers[w] EXCEPT !.pc = "crashed", !.fault = "network"])
    /\ UNCHANGED <<messages, is_generating, cancelled, input_enabled, ai_widget, thread,
                   events, mainpc, openai_ok, chatlog, dbvars>>

WorkerChunkContentEmitsDelta(w, f, frags) ==
    /\ workers[w].pc = "stream"
    /\ Len(workers[w].full_response) < frags
    /\ IF cancelled
       THEN /\ SetW(w, [workers[w] EXCEPT !.pc = "check"])
            /\ UNCHANGED events
       ELSE /\ SetW(w, [workers[w] EXCEPT !.full_response = Append(@, f)])
            /\ events' = Emit("update", w, <<f>>, FALSE)
    /\ UNCHANGED <<messages, is_generating, cancelled, input_enabled, ai_widget, thread,
                   mainpc, openai_ok, chatlog, dbvars>>

\* One chunk of the stream with content: `if self.cancelled: break`, else
\* full_response += delta.content and update_message_signal.emit. frags is
\* the number of content fragments a response of the run has at most.
WorkerChunkContent(w, f, frags) ==
    /\ workers[w].pc = "stream"
    /\ Len(workers[w].full_response) < frags
    /\ IF cancelled
       THEN /\ SetW(w, [workers[w] EXCEPT !.pc = "check"])
            /\ UNCHANGED events
       ELSE /\ SetW(w, [workers[w] EXCEPT !.full_response = Append(@, f)])
            /\ events' = Emit("update", w, Append(workers[w].full_response, f), FALSE)
    /\ UNCHANGED <<messages, is_generating, cancelled, input_enabled, ai_widget, thread,
                   mainpc, openai_ok, chatlog, dbvars>>

\* The chunk in a run whose responses have at most MaxFrags fragments.
worker_chunk_content(w, f) == WorkerChunkContent(w, f, MaxFrags)

\* One chunk with the first delta of a tool call (a new index): the call is
\* kept with its id and name and no arguments text yet.
\* rounds is the number of rounds of a request the model answers with tool
\* calls in the run (the code has no such number).
WorkerChunkCall(w, name, rounds) ==
    /\ workers[w].pc = "stream"
    /\ workers[w].round < rounds
    /\ Len(workers[w].tool_calls) < MaxCalls
    /\ IF cancelled
       THEN SetW(w, [workers[w] EXCEPT !.pc = "check"])
       ELSE SetW(w, [workers[w] EXCEPT !.tool_calls =
                Append(@, [id |-> <<w, workers[w].round + 1, Len(@) + 1>>,
                           name |-> name, arguments |-> << >>])])
    /\ UNCHANGED <<messages, is_generating, cancelled, input_enabled, ai_widget, thread,
                   events, mainpc, openai_ok, chatlog, dbvars>>

\* The chunk in a run where the model answers at most MaxToolRounds rounds
\* of a request with tool calls.
worker_chunk_call(w, name) == WorkerChunkCall(w, name, MaxToolRounds)

\* One chunk with a further delta of call i: its arguments text is appended.
worker_chunk_args(w, i) ==
    /\ workers[w].pc = "stream"
    /\ i \in 1..Len(workers[w].tool_calls)
    /\ Len(workers[w].tool_calls[i].arguments) < 2
    /\ IF cancelled
       THEN SetW(w, [workers[w] EXCEPT !.pc = "check"])
       ELSE SetW(w, [workers[w] EXCEPT !.tool_calls[i].arguments =
                Append(@, IF Len(@) = 0 THEN ArgOpen ELSE ArgClose)])
    /\ UNCHANGED <<messages, is_generating, cancelled, input_enabled, ai_widget, thread,
                   events, mainpc, openai_ok, chatlog, dbvars>>

\* The stream is exhausted: the for loop ends.
worker_stream_end(w) ==
    /\ workers[w].pc = "stream"
    /\ SetW(w, [workers[w] EXCEPT !.pc = "check"])
    /\ UNCHANGED <<messages, is_generating, cancelled, input_enabled, ai_widget, thread,
                   events, mainpc, openai_ok, chatlog, dbvars>>

CancelledAfterStreamNever == FALSE

\* `if self.cancelled:` after the for loop.
CancelledAfterStream == cancelled

\* After the loop: cancelled -> emit "[cancelled]" and return; tool calls ->
\* append the assistant turn that carries them; else emit the final text.
worker_after_stream(w) ==
    /\ workers[w].pc = "check"
    /\ IF CancelledAfterStream
       THEN /\ SetW(w, [workers[w] EXCEPT !.pc = "done", !.emitted = TRUE])
            /\ events' = Emit("finish", w, << >>, TRUE)
            /\ UNCHANGED messages
       ELSE IF workers[w].tool_calls # << >>
       THEN /\ SetW(w, [workers[w] EXCEPT !.pc = "exec"])
            /\ messages' = Append(messages,
                   Turn("assistant", w,
                        [i \in 1..Len(workers[w].tool_calls) |-> workers[w].tool_calls[i].id],
                        NoId, << >>))
            /\ UNCHANGED events
       ELSE /\ SetW(w, [workers[w] EXCEPT !.pc = "final", !.emitted = TRUE])
            /\ events' = Emit("finish", w, workers[w].full_response, FALSE)
            /\ UNCHANGED messages
    /\ UNCHANGED <<is_generating, cancelled, input_enabled, ai_widget, thread,
                   mainpc, openai_ok, chatlog, students, tasks, task_details, today,
                   current_task, lastOp, everGraded>>

\* result = self._execute_tool(tool_call) for the next call of the round, and
\* tool_messages.append(...); an exception out of _execute_tool ends the thread.
worker_execute_tool(w) ==
    /\ workers[w].pc = "exec"
    /\ Len(workers[w].tool_messages) < Len(workers[w].tool_calls)
    /\ \E listing \in BOOLEAN :
         LET call == workers[w].tool_calls[Len(workers[w].tool_messages) + 1]
             out == ExecuteTool(call, [students |-> students, tasks |-> tasks,
                                       task_details |-> task_details],
                                current_task, today, listing)
         IN  IF out.raised
             THEN /\ SetW(w, [workers[w] EXCEPT !.pc = "crashed", !.fault = "tool"])
                  /\ UNCHANGED <<students, tasks, task_details>>
             ELSE /\ SetW(w, [workers[w] EXCEPT !.tool_messages =
                        Append(@, Turn("tool", w, << >>, call.id, <<out.result>>))])
                  /\ students' = out.db.students
                  /\ tasks' = out.db.tasks
                  /\ task_details' = out.db.task_details
    /\ UNCHANGED <<messages, is_generating, cancelled, input_enabled, ai_widget, thread,
                   events, mainpc, openai_ok, chatlog, today,
                   current_task, lastOp, everGraded>>

\* self.messages.extend(tool_messages); continue.
worker_extend(w) ==
    /\ workers[w].pc = "exec"
    /\ Len(workers[w].tool_messages) = Len(workers[w].tool_calls)
    /\ messages' = messages \o workers[w].tool_messages
    /\ SetW(w, [workers[w] EXCEPT !.pc = "send", !.round = @ + 1])
    /\ UNCHANGED <<is_generating, cancelled, input_enabled, ai_widget, thread,
                   events, mainpc, openai_ok, chatlog, dbvars>>

\* After finish_message_signal.emit(full_response, False): the assistant turn
\* is appended and the loop is left.
worker_append_final(w) ==
    /\ workers[w].pc = "final"
    /\ messages' = Append(messages, Turn("assistant", w, << >>, NoId, workers[w].full_response))
    /\ SetW(w, [workers[w] EXCEPT !.pc = "done"])
    /\ UNCHANGED <<is_generating, cancelled, input_enabled, ai_widget, thread,
                   events, mainpc, openai_ok, chatlog, dbvars>>

NextMain ==
    \/ send_message
    \/ cancel_generation_begin
    \/ cancel_generation_end
    \/ update_display_ui
    \/ finish_message_ui

NextWorker(w) ==
    \/ worker_import_error(w)
    \/ worker_send(w)
    \/ worker_fault(w)
    \/ \E f \in Fragments : worker_chunk_content(w, f)
    \/ \E name \in ToolNames : worker_chunk_call(w, name)
    \/ \E i \in 1..MaxCalls : worker_chunk_args(w, i)
    \/ worker_stream_end(w)
    \/ worker_after_stream(w)
    \/ worker_execute_tool(w)
    \/ worker_extend(w)
    \/ worker_append_final(w)

\* One step of the main thread or of a worker thread.
NextChat ==
    /\ nops < MaxSteps
    /\ nops' = nops + 1
    /\ (NextMain \/ \E w \in WorkerIds : NextWorker(w))
    /\ UNCHANGED <<winvars, range_call>>

InitChatSession ==
    /\ InitDb /\ InitChat /\ InitWindow
    /\ openai_ok \in BOOLEAN /\ api_key = TRUE /\ range_call = NoRangeCall

SpecChat == InitChatSession /\ [][NextChat]_vars

\* ------------------------- one request answered with tool calls only
\* The round limit a request is held against.
RoundLimit == 8

\* The model answers the request with tool calls for one round more than the
\* limit.
MaxRounds == RoundLimit + 1

\* Steps of one run of SpecRounds: send_message, then eight steps a round.
MaxRoundSteps == 8 * MaxRounds + 2

\* The worker of the request while the model answers with a tool call.
NextRoundsWorker(w) ==
    \/ worker_send(w)
    \/ \E name \in ToolNames : WorkerChunkCall(w, name, MaxRounds)
    \/ \E i \in 1..MaxCalls : worker_chunk_args(w, i)
    \/ worker_stream_end(w)
    \/ worker_after_stream(w)
    \/ worker_execute_tool(w)
    \/ worker_extend(w)
    \/ worker_append_final(w)

NextRounds ==
    /\ nops < MaxRoundSteps
    /\ nops' = nops + 1
    /\ \/ Len(workers) = 0 /\ send_message
       \/ \E w \in WorkerIds : NextRoundsWorker(w)
    /\ UNCHANGED <<winvars, range_call>>

SpecRounds == Init /\ [][NextRounds]_vars

\* ------------------------------ one request answered with text only
\* Content fragments of one streamed response in a run of SpecStream.
MaxStreamFrags == 3

\* Steps of the two threads in one run of SpecStream.
MaxStreamSteps == 13

NextStreamMain ==
    \/ Len(workers) = 0 /\ send_message
    \/ cancel_generation_begin
    \/ cancel_generation_end
    \/ update_display_ui
    \/ finish_message_ui

\* The worker of the request while the model answers with content.
NextStreamWorker(w) ==
    \/ worker_send(w)
    \/ \E f \in Fragments : WorkerChunkContent(w, f, MaxStreamFrags)
    \/ worker_stream_end(w)
    \/ worker_after_stream(w)
    \/ worker_append_final(w)

NextStream ==
    /\ nops < MaxStreamSteps
    /\ nops' = nops + 1
    /\ (NextStreamMain \/ \E w \in WorkerIds : NextStreamWorker(w))
    /\ UNCHANGED <<winvars, range_call>>

SpecStream == Init /\ [][NextStream]_vars

\* ===================================== the tool handlers driving the ledger
NoArgs == ToolArgs({}, "", NULL, "", "", 0)

\* The argument objects the language model calls each tool with.
ArgsFor(name) ==
    CASE name \in {"get_student_info", "get_student_history", "mark_student_submitted",
                   "delete_student"} ->
           {ToolArgs({"student_id"}, sid, NULL, "", "", 0) : sid \in StudentIds}
      [] name = "set_student_grade" ->
           {ToolArgs({"student_id", "grade"}, sid, g, "", "", 0) : sid \in StudentIds, g \in Grades}
             \cup {ToolArgs({"student_id"}, ArgStudent, NULL, "", "", 0)}
      [] name = "add_student" ->
           {ToolArgs({"student_id", "name", "class"}, ArgStudent, NULL, p.name, p.class, 0) :
                p \in Profiles}
             \cup {ToolArgs({"student_id", "name"}, sid, NULL, "Wang", "", 0) : sid \in StudentIds}
      [] name = "update_student" ->
           {ToolArgs({"student_id", "class"}, sid, NULL, "", "2024", 0) : sid \in StudentIds}
      [] name = "get_task_details" ->
           {ToolArgs({"task_id"}, "", NULL, "", "", t) : t \in TaskIds}
      [] name = "get_students_by_class" -> {ToolArgs({"class_name"}, "", NULL, "", "", 0)}
      [] name = "get_students_by_id_range" ->
           {ToolArgs({"start_id", "end_id"}, "", NULL, "", "", 0)}
      [] OTHER -> {NoArgs}

\* The tool calls: every tool of the catalogue and one that is not in it, with
\* the whole arguments text, and one call whose text stops short.
ToolCalls ==
    {[id |-> NoId, name |-> name, arguments |-> <<a, ArgClose>>] :
        <<name, a>> \in {p \in (MutatingTools \cup ReadOnlyTools \cup {"no_such_tool"})
                               \X UNION {ArgsFor(n) : n \in MutatingTools \cup ReadOnlyTools} :
                           p[2] \in ArgsFor(p[1])}}
      \cup {[id |-> NoId, name |-> "get_all_classes", arguments |-> <<NoArgs>>]}

\* result = self._execute_tool(tool_call) with the store as it is; had
\* (history) is whether the records of task_details changed.
execute_tool(call, listing) ==
    LET out == ExecuteTool(call, [students |-> students, tasks |-> tasks,
                                  task_details |-> task_details],
                           current_task, today, listing)
        a == IF JsonLoads(call.arguments) THEN ParsedArgs(call.arguments) ELSE NoArgs
    IN  /\ students' = out.db.students
        /\ tasks' = out.db.tasks
        /\ task_details' = out.db.task_details
        /\ everGraded' = IF call.name = "set_student_grade" /\ out.result = "ok"
                          THEN everGraded \cup {<<current_task.id, a.student_id>>}
                          ELSE everGraded
        /\ lastOp' = [Op("tool", IF call.name = "get_task_details" THEN a.task_id
                                  ELSE current_task.id, a.student_id, a.grade) EXCEPT
                        !.tool = call.name,
                        !.result = IF out.raised THEN "raised" ELSE out.result,
                        !.steps = out.steps,
                        !.had = out.db.task_details # task_details]
        /\ UNCHANGED <<today, current_task, winvars>>

\* DatabaseManager.get_submitted_students: its ensure_task_students is its
\* effect on the store.
get_submitted_students(t) ==
    /\ task_details' = EnsureTaskStudents(students, task_details, t)
    /\ lastOp' = [Op("get_submitted_students", t, "", NULL) EXCEPT
                    !.had = EnsureTaskStudents(students, task_details, t) # task_details]
    /\ UNCHANGED <<students, tasks, today, current_task, everGraded, winvars>>

\* DatabaseManager.get_missing_students (with or without a class).
get_missing_students(t) ==
    /\ task_details' = EnsureTaskStudents(students, task_details, t)
    /\ lastOp' = [Op("get_missing_students", t, "", NULL) EXCEPT
                    !.had = EnsureTaskStudents(students, task_details, t) # task_details]
    /\ UNCHANGED <<students, tasks, today, current_task, everGraded, winvars>>

\* DatabaseManager.get_student_history: a SELECT only.
get_student_history(s) ==
    /\ lastOp' = Op("get_student_history", 0, s, NULL)
    /\ UNCHANGED <<students, tasks, task_details, today, current_task, everGraded, winvars>>

NextTools ==
    /\ nops < MaxToolOps
    /\ nops' = nops + 1
    /\ \/ NextDb
       \/ \E call \in ToolCalls, listing \in BOOLEAN : execute_tool(call, listing)
       \/ \E t \in TaskIds : get_submitted_students(t)
       \/ \E t \in TaskIds : get_missing_students(t)
       \/ \E s \in StudentIds : get_student_history(s)
    /\ UNCHANGED <<chatvars, range_call>>

SpecTools == Init /\ [][NextTools]_vars

\* ======================================== the main window's input routing
\* The texts entered in the input field (already stripped).
InputTexts == StudentIds \cup {"20230", "20230a", "AssignFlow"}

\* The characters of a text.
Chars(text) ==
    CASE text = "202301" -> <<"2", "0", "2", "3", "0", "1">>
      [] text = "202302" -> <<"2", "0", "2", "3", "0", "2">>
      [] text = "20230" -> <<"2", "0", "2", "3", "0">>
      [] text = "20230a" -> <<"2", "0", "2", "3", "0", "a">>
      [] text = "AssignFlow" -> <<"A", "s", "s", "i", "g", "n", "F", "l", "o", "w">>
      [] OTHER -> << >>

Digits == {"0", "1", "2", "3", "4", "5", "6", "7", "8", "9"}

\* str.isdigit: not empty and every character a digit.
IsDigit(text) ==
    /\ Chars(text) # << >>
    /\ \A i \in 1..Len(Chars(text)) : Chars(text)[i] \in Digits

\* str.lower on the texts of the model.
Lower(text) == IF text = "AssignFlow" THEN "assignflow" ELSE text

\* text.isdigit() and len(text) == 6
IsStudentIdText(text) == IsDigit(text) /\ Len(Chars(text)) = 6

\* The pages of the stack whose widget has a handle_input method: SubmitPage
\* (index 0) and GradePage (index 1).
PagesWithHandleInput == {0, 1}

\* process_input without the test for the assistant page.
RouteNoAssistantBranch(text, pg, key) ==
    IF Lower(text) = "assignflow" THEN "easter_egg"
    ELSE IF IsStudentIdText(text)
    THEN IF pg \in PagesWithHandleInput THEN "handle_input" ELSE "status"
    ELSE IF ~key THEN "no_api_key" ELSE "send_message"

\* MainWindow.process_input: where a text entered on page pg goes. key is
\* whether the configuration has an API key.
Route(text, pg, key) ==
    IF Lower(text) = "assignflow" THEN "easter_egg"
    ELSE IF IsStudentIdText(text)
    THEN IF pg = AiPage THEN "send_message"
         ELSE IF pg \in PagesWithHandleInput THEN "handle_input" ELSE "status"
    ELSE IF ~key THEN "no_api_key" ELSE "send_message"

\* get_page(1): the GradePage is constructed on first use.
BuildGradePage(gp, cur) ==
    IF gp.built THEN gp
    ELSE [built |-> TRUE, task_id |-> cur.id, current_class |-> NULL]

\* SubmitPage.handle_input(student_id) for a student of the roster, on the
\* page: the class goes on display; refresh_data follows.
SubmitHandleInputPage(st, sp, cur, s) ==
    IF cur = NoTask \/ s \notin DOMAIN st THEN SubmitRefresh(sp, cur)
    ELSE SubmitRefresh([sp EXCEPT !.display_classes = @ \cup {st[s].class}], cur)

\* SubmitPage.handle_input on task_details: submit_student(self.task_id, id)
\* for a student of the roster, then refresh_data.
SubmitHandleInputRows(st, td, sp, cur, s) ==
    IF cur = NoTask THEN td
    ELSE IF s \in DOMAIN st
    THEN SubmitRefreshRows(st, SubmitStudent(td, sp.task_id, s),
                           [sp EXCEPT !.display_classes = @ \cup {st[s].class}], cur)
    ELSE SubmitRefreshRows(st, td, sp, cur)

\* SubmitPage.handle_input on unknown_items: an id that is not in the roster
\* is appended once.
SubmitHandleInputUnknown(st, ul, cur, s) ==
    IF cur # NoTask /\ s \notin DOMAIN st /\ (\A i \in 1..Len(ul) : ul[i] # s)
    THEN Append(ul, s)
    ELSE ul

\* GradePage.handle_input passes its three tests: a current task, a student
\* of the roster, and the student's class is the page's class (the class of
\* the first student graded when the page has none).
GradeAccepts(st, gp, cur, s) ==
    /\ cur # NoTask
    /\ s \in DOMAIN st
    /\ (gp.current_class = NULL \/ st[s].class = gp.current_class)

\* GradePage.custom_grade as constructed.
CustomGrade == "A"

\* GradePage.handle_input on the page: current_class is set from the student
\* when it was None (also when the class test then passes trivially), then
\* refresh_data.
GradeHandleInputPage(st, gp, cur, s) ==
    IF GradeAccepts(st, gp, cur, s)
    THEN GradeRefresh([gp EXCEPT !.current_class = st[s].class], cur)
    ELSE gp

\* GradePage.handle_input on task_details: set_grade(self.task_id, id,
\* custom_grade), then refresh_data.
GradeHandleInputRows(st, td, gp, cur, s) ==
    IF GradeAccepts(st, gp, cur, s)
    THEN GradeRefreshRows(st, SetGrade(td, gp.task_id, s, CustomGrade),
                          [gp EXCEPT !.current_class = st[s].class], cur)
    ELSE td

\* MainWindow.process_input with the text of the input field. The field is
\* enabled (send_message disables it until the request ends or is cancelled).
process_input(text) ==
    /\ mainpc = "loop"
    /\ input_enabled
    /\ routed' = [text |-> text, page |-> page, to |-> Route(text, page, api_key)]
    /\ UNCHANGED api_key
    /\ CASE Route(text, page, api_key) = "handle_input" /\ page = 0 ->
              /\ task_details' =
                    SubmitHandleInputRows(students, task_details, submit_page, current_task, text)
              /\ submit_page' = SubmitHandleInputPage(students, submit_page, current_task, text)
              /\ unknown_list' =
                    SubmitHandleInputUnknown(students, unknown_list, current_task, text)
              /\ lastOp' = [Op("submit_page_handle_input", submit_page.task_id, text, NULL)
                              EXCEPT !.result = IF current_task # NoTask /\ text \in Roster
                                                THEN "written" ELSE ""]
              /\ UNCHANGED <<students, tasks, today, current_task, everGraded>>
              /\ UNCHANGED <<page, previous_page, grade_page, chatvars>>
         [] Route(text, page, api_key) = "handle_input" /\ page = 1 ->
              /\ task_details' =
                    GradeHandleInputRows(students, task_details, grade_page, current_task, text)
              /\ grade_page' = GradeHandleInputPage(students, grade_page, current_task, text)
              /\ everGraded' = IF GradeAccepts(students, grade_page, current_task, text)
                               THEN everGraded \cup {<<grade_page.task_id, text>>}
                               ELSE everGraded
              /\ lastOp' = [Op("grade_page_handle_input", grade_page.task_id, text, CustomGrade)
                              EXCEPT !.result =
                                  IF GradeAccepts(students, grade_page, current_task, text)
                                  THEN "written" ELSE ""]
              /\ UNCHANGED <<students, tasks, today, current_task>>
              /\ UNCHANGED <<page, previous_page, submit_page, unknown_list, chatvars>>
         [] Route(text, page, api_key) = "send_message" ->
              /\ page' = AiPage
              /\ previous_page' = IF page = AiPage THEN previous_page
                                  ELSE PreviousPageOnSwitch(AiPage, page)
              /\ IF api_key THEN send_message ELSE UNCHANGED <<chatvars, dbvars>>
              /\ UNCHANGED <<submit_page, grade_page, unknown_list>>
         [] OTHER ->
              UNCHANGED <<dbvars, chatvars, page, previous_page, submit_page, grade_page, unknown_list>>

\* MainWindow.switch_page(index) from a toolbar button: nothing when the page
\* is shown already; else the page is built if it was a placeholder, shown,
\* and its refresh_data runs.
switch_page(index) ==
    /\ mainpc = "loop"
    /\ page # index
    /\ page' = index
    /\ previous_page' = PreviousPageOnSwitch(index, page)
    /\ submit_page' = IF index = 0 THEN SubmitRefresh(submit_page, current_task)
                      ELSE submit_page
    /\ grade_page' = IF index = 1
                     THEN GradeRefresh(BuildGradePage(grade_page, current_task), current_task)
                     ELSE grade_page
    /\ task_details' =
          CASE index = 0 -> SubmitRefreshRows(students, task_details, submit_page, current_task)
            [] index = 1 -> GradeRefreshRows(students, task_details,
                                BuildGradePage(grade_page, current_task), current_task)
            [] OTHER -> task_details
    /\ lastOp' = NoOp
    /\ UNCHANGED <<students, tasks, today, current_task, everGraded>>
    /\ UNCHANGED <<unknown_list, api_key, routed, chatvars>>

\* SettingsDialog.save_config: the API key is set or emptied.
save_config(key) ==
    /\ mainpc = "loop"
    /\ api_key # key
    /\ api_key' = key
    /\ lastOp' = NoOp
    /\ UNCHANGED <<students, tasks, task_details, today, current_task, everGraded>>
    /\ UNCHANGED <<page, previous_page, submit_page, grade_page, unknown_list, routed, chatvars>>

\* Steps of the user at the main window in one run of SpecWindow.
MaxInputs == 5

\* One step of the user at the main window. The worker threads of the
\* requests started are not scheduled here: a request ends by
\* cancel_generation.
NextUser ==
    \/ \E text \in InputTexts : process_input(text)
    \/ \E index \in 0..3 : switch_page(index)
    \/ \E key \in BOOLEAN : save_config(key)
    \/ (\E s \in StudentIds, p \in Profiles : add_student(s, p)) /\ UNCHANGED chatvars
    \/ cancel_generation_begin /\ UNCHANGED winvars
    \/ cancel_generation_end /\ UNCHANGED winvars

NextWindow ==
    /\ nops < MaxInputs
    /\ nops' = nops + 1
    /\ NextUser
    /\ UNCHANGED range_call

SpecWindow == Init /\ [][NextWindow]_vars

\* ------------------------------------- the pages over several tasks
\* Steps of the user in one run of SpecPages.
MaxPageOps == 6

\* One step of the user who enters student ids on the submit page and the
\* grade page while the roster and the current task change.
NextPagesUser ==
    \/ \E text \in StudentIds : process_input(text)
    \/ \E index \in 0..1 : switch_page(index)
    \/ (\E s \in StudentIds, p \in Profiles : add_student(s, p)) /\ UNCHANGED chatvars
    \/ create_new_task /\ UNCHANGED chatvars
    \/ clear_all_data /\ UNCHANGED chatvars
    \/ day_passes /\ UNCHANGED chatvars

NextPages ==
    /\ nops < MaxPageOps
    /\ nops' = nops + 1
    /\ NextPagesUser
    /\ UNCHANGED range_call

SpecPages == Init /\ [][NextPages]_vars

\* --------------------- a student id entered while a worker runs a tool
\* SubmitPage.handle_input / GradePage.handle_input up to the write, for an
\* id that passes the tests: get_student finds the student (a transaction of
\* its own), the submit page puts the class on display, the grade page takes
\* the class when it has none. The write is a later step of the main thread.
handle_input_check(text) ==
    /\ mainpc = "loop"
    /\ input_enabled
    /\ IsStudentIdText(text)
    /\ Route(text, page, api_key) = "handle_input"
    /\ current_task # NoTask
    /\ text \in Roster
    /\ page = 1 => GradeAccepts(students, grade_page, current_task, text)
    /\ mainpc' = "handle"
    /\ routed' = [text |-> text, page |-> page, to |-> "handle_input"]
    /\ submit_page' = IF page = 0
                      THEN [submit_page EXCEPT !.display_classes = @ \cup {students[text].class}]
                      ELSE submit_page
    /\ grade_page' = IF page = 1
                     THEN [grade_page EXCEPT !.current_class = students[text].class]
                     ELSE grade_page
    /\ UNCHANGED <<page, previous_page, unknown_list, api_key, dbvars>>
    /\ UNCHANGED <<messages, is_generating, cancelled, input_enabled, ai_widget, thread,
                   workers, events, openai_ok, chatlog>>

\* The rest of handle_input: submit_student(self.task_id, id) or
\* set_grade(self.task_id, id, custom_grade), then refresh_data.
handle_input_write ==
    /\ mainpc = "handle"
    /\ mainpc' = "loop"
    /\ IF routed.page = 0
       THEN /\ task_details' =
                  SubmitRefreshRows(students,
                      SubmitStudent(task_details, submit_page.task_id, routed.text),
                      submit_page, current_task)
            /\ submit_page' = SubmitRefresh(submit_page, current_task)
            /\ lastOp' = [Op("submit_page_handle_input", submit_page.task_id, routed.text, NULL)
                            EXCEPT !.result = "written"]
            /\ UNCHANGED <<grade_page, everGraded>>
       ELSE /\ task_details' =
                  GradeRefreshRows(students,
                      SetGrade(task_details, grade_page.task_id, routed.text, CustomGrade),
                      grade_page, current_task)
            /\ grade_page' = GradeRefresh(grade_page, current_task)
            /\ everGraded' = everGraded \cup {<<grade_page.task_id, routed.text>>}
            /\ lastOp' = [Op("grade_page_handle_input", grade_page.task_id, routed.text,
                             CustomGrade)
                            EXCEPT !.result = "written"]
            /\ UNCHANGED submit_page
    /\ UNCHANGED <<students, tasks, today, current_task>>
    /\ UNCHANGED <<page, previous_page, unknown_list, api_key, routed>>
    /\ UNCHANGED <<messages, is_generating, cancelled, input_enabled, ai_widget, thread,
                   workers, events, openai_ok, chatlog>>

\* Steps of the two threads in one run of SpecRace.
MaxRaceSteps == 13

\* The main thread: a question for the assistant, its cancellation, the
\* toolbar, and a student id entered on the submit page or the grade page.
NextRaceMain ==
    \/ Len(workers) = 0 /\ process_input("20230a")
    \/ cancel_generation_begin /\ UNCHANGED winvars
    \/ cancel_generation_end /\ UNCHANGED winvars
    \/ \E index \in 0..1 : switch_page(index)
    \/ handle_input_check(ArgStudent)
    \/ handle_input_write

\* The worker of the request: the model answers with the tool call
\* delete_student {"student_id": "202301"}.
NextRaceWorker(w) ==
    \/ worker_send(w) /\ UNCHANGED winvars
    \/ worker_chunk_call(w, "delete_student") /\ UNCHANGED winvars
    \/ (\E i \in 1..MaxCalls : worker_chunk_args(w, i)) /\ UNCHANGED winvars
    \/ worker_stream_end(w) /\ UNCHANGED winvars
    \/ worker_after_stream(w) /\ UNCHANGED winvars
    \/ worker_execute_tool(w) /\ UNCHANGED winvars
    \/ worker_extend(w) /\ UNCHANGED winvars

NextRace ==
    /\ nops < MaxRaceSteps
    /\ nops' = nops + 1
    /\ (NextRaceMain \/ \E w \in WorkerIds : NextRaceWorker(w))
    /\ UNCHANGED range_call

\* The window after the student 202301 was added to the roster.
InitRace ==
    /\ InitChat /\ InitWindow
    /\ students = (ArgStudent :> [name |-> "Zhang", class |-> "2023"])
    /\ today = 1
    /\ tasks = {[id |-> 1, date |-> 1]}
    /\ task_details = {}
    /\ current_task = [id |-> 1, date |-> 1]
    /\ lastOp = NoOp
    /\ everGraded = {}
    /\ nops = 0
    /\ openai_ok = TRUE /\ api_key = TRUE /\ range_call = NoRangeCall

SpecRace == InitRace /\ [][NextRace]_vars

\* ------------------- today's task created by the main thread and a worker
\* get_or_create_today_task is a SELECT and, when it finds no row, an INSERT
\* on one connection: the SELECT is outside a transaction (sqlite3 begins one
\* before the INSERT), so a commit of the other thread can fall between them.

\* The rest of _execute_tool's get_today_stats once its task is known:
\* get_task_details(task['id']), and the result is appended for the call.
StatsDone(w, t) ==
    LET call == workers[w].tool_calls[Len(workers[w].tool_messages) + 1]
    IN  /\ task_details' = EnsureTaskStudents(students, task_details, t.id)
        /\ SetW(w, [workers[w] EXCEPT !.pc = "exec", !.tool_messages =
                      Append(@, Turn("tool", w, << >>, call.id, <<"ok">>))])

\* The worker runs get_today_stats: json.loads of the arguments, then
\* get_current_task's SELECT ... ORDER BY date DESC LIMIT 1.
worker_stats_current(w) ==
    /\ workers[w].pc = "exec"
    /\ Len(workers[w].tool_messages) < Len(workers[w].tool_calls)
    /\ workers[w].tool_calls[Len(workers[w].tool_messages) + 1].name = "get_today_stats"
    /\ IF ~JsonLoads(workers[w].tool_calls[Len(workers[w].tool_messages) + 1].arguments)
       THEN /\ SetW(w, [workers[w] EXCEPT !.pc = "crashed", !.fault = "tool"])
            /\ UNCHANGED task_details
       ELSE IF tasks # {}
       THEN \E t \in LatestTasks(tasks) : StatsDone(w, t)
       ELSE /\ SetW(w, [workers[w] EXCEPT !.pc = "goc_select"])
            /\ UNCHANGED task_details
    /\ UNCHANGED <<messages, is_generating, cancelled, input_enabled, ai_widget, thread,
                   events, mainpc, openai_ok, chatlog, students, tasks, today,
                   current_task, lastOp, everGraded>>

\* The worker in get_or_create_today_task: SELECT * FROM tasks WHERE date = ?.
worker_today_select(w) ==
    /\ workers[w].pc = "goc_select"
    /\ IF TasksOfDate(tasks, today) # {}
       THEN \E t \in TasksOfDate(tasks, today) : StatsDone(w, t)
       ELSE /\ SetW(w, [workers[w] EXCEPT !.pc = "goc_insert"])
            /\ UNCHANGED task_details
    /\ UNCHANGED <<messages, is_generating, cancelled, input_enabled, ai_widget, thread,
                   events, mainpc, openai_ok, chatlog, students, tasks, today,
                   current_task, lastOp, everGraded>>

\* The worker in get_or_create_today_task: the INSERT and the commit.
worker_today_insert(w) ==
    /\ workers[w].pc = "goc_insert"
    /\ tasks' = tasks \cup {[id |-> NextTaskId(tasks), date |-> today]}
    /\ StatsDone(w, [id |-> NextTaskId(tasks), date |-> today])
    /\ UNCHANGED <<messages, is_generating, cancelled, input_enabled, ai_widget, thread,
                   events, mainpc, openai_ok, chatlog, students, today,
                   current_task, lastOp, everGraded>>

\* MainWindow.clear_all_data up to the return of self.db.clear_all_data():
\* the three tables and sqlite_sequence are emptied and the commit is made.
clear_all_data_delete ==
    /\ mainpc = "loop"
    /\ students' = << >>
    /\ task_details' = {}
    /\ tasks' = {}
    /\ everGraded' = {}
    /\ lastOp' = NoOp
    /\ mainpc' = "cleared"
    /\ UNCHANGED <<today, current_task, winvars>>
    /\ UNCHANGED <<messages, is_generating, cancelled, input_enabled, ai_widget, thread,
                   workers, events, openai_ok, chatlog>>

\* The rest of MainWindow.clear_all_data once today's task t is known:
\* current_task = t, unknown_list.clear(), refresh_all_pages, switch_page(0).
ClearAllDataDone(t) ==
    /\ current_task' = t
    /\ task_details' = RefreshAllRows(students, task_details, submit_page, grade_page, t)
    /\ lastOp' = Op("clear_all_data", t.id, "", NULL)
    /\ unknown_list' = << >>
    /\ submit_page' = SubmitRefresh(submit_page, t)
    /\ grade_page' = GradeRefresh(grade_page, t)
    /\ page' = 0
    /\ previous_page' = IF page = 0 THEN previous_page ELSE PreviousPageOnSwitch(0, page)
    /\ mainpc' = "loop"
    /\ UNCHANGED <<students, today, everGraded, api_key, routed>>
    /\ UNCHANGED <<messages, is_generating, cancelled, input_enabled, ai_widget, thread,
                   workers, events, openai_ok, chatlog>>

\* The main thread in get_or_create_today_task: the SELECT.
clear_all_data_select ==
    /\ mainpc = "cleared"
    /\ IF TasksOfDate(tasks, today) # {}
       THEN /\ \E t \in TasksOfDate(tasks, today) : ClearAllDataDone(t)
            /\ UNCHANGED tasks
       ELSE /\ mainpc' = "insert"
            /\ UNCHANGED <<dbvars, winvars>>
            /\ UNCHANGED <<messages, is_generating, cancelled, input_enabled, ai_widget,
                           thread, workers, events, openai_ok, chatlog>>

\* The main thread in get_or_create_today_task: the INSERT and the commit.
clear_all_data_insert ==
    /\ mainpc = "insert"
    /\ tasks' = tasks \cup {[id |-> NextTaskId(tasks), date |-> today]}
    /\ ClearAllDataDone([id |-> NextTaskId(tasks), date |-> today])

\* Steps of the two threads in one run of SpecToday.
MaxTodaySteps == 14

NextTodayMain ==
    \/ Len(workers) = 0 /\ send_message /\ UNCHANGED winvars
    \/ clear_all_data_delete
    \/ clear_all_data_select
    \/ clear_all_data_insert
    \/ mainpc = "loop" /\ create_new_task /\ UNCHANGED chatvars
    \/ mainpc = "loop" /\ day_passes /\ UNCHANGED chatvars

\* The worker of a request that the model answers with get_today_stats.
NextTodayWorker(w) ==
    \/ worker_send(w) /\ UNCHANGED winvars
    \/ WorkerChunkCall(w, "get_today_stats", 1) /\ UNCHANGED winvars
    \/ (\E i \in 1..MaxCalls : worker_chunk_args(w, i)) /\ UNCHANGED winvars
    \/ worker_stream_end(w) /\ UNCHANGED winvars
    \/ worker_after_stream(w) /\ UNCHANGED winvars
    \/ worker_stats_current(w) /\ UNCHANGED winvars
    \/ worker_today_select(w) /\ UNCHANGED winvars
    \/ worker_today_insert(w) /\ UNCHANGED winvars
    \/ worker_extend(w) /\ UNCHANGED winvars

NextToday ==
    /\ nops < MaxTodaySteps
    /\ nops' = nops + 1
    /\ (NextTodayMain \/ \E w \in WorkerIds : NextTodayWorker(w))
    /\ UNCHANGED range_call

SpecToday == Init /\ [][NextToday]_vars

\* ======================================= claims about the input routing
\* C16 as stated: a six-digit all-numeric text is delivered to handle_input
\* and never to send_message, whichever page is shown when it is entered.
C16_Original ==
    IsStudentIdText(routed.text) => routed.to = "handle_input"

\* C16: a six-digit all-numeric text goes to handle_input exactly when the
\* page shown is the submit page or the grade page; on the students page and
\* the export page it is answered with a status message only, and on the
\* assistant page it goes to send_message.
C16_RoutingByPage ==
    IsStudentIdText(routed.text) =>
        /\ routed.page \in {0, 1} => routed.to = "handle_input"
        /\ routed.page \in {2, 3} => routed.to = "status"
        /\ routed.page = 4 => routed.to = "send_message"

\* A student id entered on the assistant page has become a user turn.
C16_Witness ==
    /\ routed.text \in StudentIds
    /\ routed.page = 4
    /\ routed.to = "send_message"
    /\ messages # << >>
    /\ messages[Len(messages)].role = "user"
    /\ is_generating

\* C21 as stated: a student id handled by the submit page or the grade page
\* is written to the record of the window's current task as it is when the
\* id is entered, also after create_new_task or clear_all_data replaced the
\* current task while the page existed.
C21_Original ==
    (/\ lastOp.op \in {"submit_page_handle_input", "grade_page_handle_input"}
     /\ lastOp.result = "written")
        => lastOp.task = current_task.id

\* C22 as stated: for every student of the roster and every task with no row
\* for the pair, the student's history view and the class / export matrix
\* show the cell as missing, never as submitted.
C22_Original ==
    \A s \in Roster, t \in tasks :
        ~HasRow(task_details, t.id, s) =>
            /\ DetailStatus(tasks, task_details, t.id, s) = CellMissing
            /\ PreviewCell(tasks, task_details, t.id, s) = CellMissing

\* C23 as stated: right after ensure_task_students(T) every student of the
\* roster has a row under T, whatever rows T had before, rows of ids that are
\* not in the roster included.
C23_Original ==
    (lastOp.op = "ensure_task_students") =>
        \A s \in Roster : HasRow(task_details, lastOp.task, s)

\* C24: a submit_student(T, S) step leaves the row of (T, S) with status
\* submitted and with the grade the row had before the step, NULL when there
\* was no row, and changes no other row of task_details; so a grade set by
\* set_grade is still there after a later submit_student.
C24_SubmitKeepsGrade ==
    [][(lastOp'.op = "submit_student") =>
          /\ HasRow(task_details', lastOp'.task, lastOp'.sid)
          /\ RowOf(task_details', lastOp'.task, lastOp'.sid).status = "submitted"
          /\ RowOf(task_details', lastOp'.task, lastOp'.sid).grade =
                IF HasRow(task_details, lastOp'.task, lastOp'.sid)
                THEN RowOf(task_details, lastOp'.task, lastOp'.sid).grade
                ELSE NULL
          /\ {r \in task_details' :
                 ~(r.task_id = lastOp'.task /\ r.student_id = lastOp'.sid)}
                = {r \in task_details :
                     ~(r.task_id = lastOp'.task /\ r.student_id = lastOp'.sid)}]_vars

\* C24 witness: submit_student has just run on a row that had a grade, and the
\* row still has that grade.
C24_Witness ==
    /\ lastOp.op = "submit_student"
    /\ lastOp.had
    /\ lastOp.prev.grade \in Grades
    /\ <<lastOp.task, lastOp.sid>> \in everGraded
    /\ RowOf(task_details, lastOp.task, lastOp.sid).grade = lastOp.prev.grade

\* ================================================= claims about the ledger
\* The row get_task_details(t) lists for student s (the set is one row, or
\* empty when s is not in the roster).
DetailsRowsOf(t, s) ==
    {row \in GetTaskDetails(students, task_details, t) : row.student_id = s}

\* C1: for a roster student S, right after submit_student(T, S) the listing
\* get_task_details(T) has a row for S, every such row has status submitted,
\* and its grade is NULL if set_grade was never called for (T, S).
C1_SubmitThenDetails ==
    (lastOp.op = "submit_student" /\ lastOp.sid \in Roster) =>
        /\ DetailsRowsOf(lastOp.task, lastOp.sid) # {}
        /\ \A row \in DetailsRowsOf(lastOp.task, lastOp.sid) :
              /\ row.status = "submitted"
              /\ (<<lastOp.task, lastOp.sid>> \notin everGraded => row.grade = NULL)

\* C1 witness: a roster student whose row was 'missing' and never graded has
\* just been submitted.
C1_Witness ==
    /\ lastOp.op = "submit_student"
    /\ lastOp.sid \in Roster
    /\ lastOp.prev.status = "missing"
    /\ <<lastOp.task, lastOp.sid>> \notin everGraded

\* C2: for a roster student S, right after set_grade(T, S, g) the listing
\* get_task_details(T) has a row for S, and every such row has status
\* submitted and grade g, whatever the row of (T, S) was before.
C2_SetGradeThenDetails ==
    (lastOp.op = "set_grade" /\ lastOp.sid \in Roster) =>
        /\ DetailsRowsOf(lastOp.task, lastOp.sid) # {}
        /\ \A row \in DetailsRowsOf(lastOp.task, lastOp.sid) :
              row.status = "submitted" /\ row.grade = lastOp.grade

\* C2 witness: the grade of a roster student was set on a row that was
\* 'missing' before.
C2_Witness ==
    /\ lastOp.op = "set_grade"
    /\ lastOp.sid \in Roster
    /\ lastOp.prev.status = "missing"

\* C3: right after create_new_task (reset_today_task, then current_task =
\* get_current_task()), get_task_details of the current task lists every
\* roster student, each with status missing and grade NULL, and running
\* reset_today_task once more changes neither tasks nor task_details.
C3_ResetThenDetails ==
    (lastOp.op = "create_new_task") =>
        /\ {row.student_id : row \in GetTaskDetails(students, task_details, current_task.id)}
               = Roster
        /\ \A row \in GetTaskDetails(students, task_details, current_task.id) :
              row.status = "missing" /\ row.grade = NULL
        /\ \A got \in GetOrCreateTodayTask(tasks, today) :
              /\ got[2] = tasks
              /\ ResetTodayTask(students, task_details, got[1].id) = task_details

\* C3 witness: the task of a roster of two was reset while a roster student
\* had a grade under it.
C3_Witness ==
    /\ lastOp.op = "create_new_task"
    /\ lastOp.had
    /\ Cardinality(Roster) = 2

\* C4 as stated: right after delete_student(S) no row of task_details is S's
\* and get_student_history(S) returns nothing.
C4_Original ==
    (lastOp.op = "delete_student") =>
        /\ \A r \in task_details : r.student_id # lastOp.sid
        /\ GetStudentHistory(tasks, task_details, lastOp.sid) = {}

\* C4 amended: right after delete_student(S) no row of task_details is S's,
\* and get_student_history(S) returns one row per task, each with status and
\* grade NULL (so nothing only when there is no task).
C4_DeleteThenHistory ==
    (lastOp.op = "delete_student") =>
        /\ \A r \in task_details : r.student_id # lastOp.sid
        /\ GetStudentHistory(tasks, task_details, lastOp.sid)
               = {[task_id |-> t.id, status |-> NULL, grade |-> NULL] : t \in tasks}

\* C4 witness: a student who had rows in task_details has just been deleted.
C4_Witness ==
    /\ lastOp.op = "delete_student"
    /\ lastOp.had

\* C11: ensure_task_students is idempotent: for every task id, applying it to
\* its own result gives that result again, and right after a call a second
\* call leaves task_details (keys, status, grade) as the first left it.
C11_EnsureIdempotent ==
    /\ \A t \in TaskIds :
          EnsureTaskStudents(students, EnsureTaskStudents(students, task_details, t), t)
              = EnsureTaskStudents(students, task_details, t)
    /\ (lastOp.op = "ensure_task_students") =>
          EnsureTaskStudents(students, task_details, lastOp.task) = task_details

\* C11 witness: a call of ensure_task_students has just inserted rows for a
\* roster of two.
C11_Witness ==
    /\ lastOp.op = "ensure_task_students"
    /\ lastOp.had
    /\ Cardinality(Roster) = 2

SubmittedEntriesOf(t, s) ==
    {e \in GetSubmittedStudents(students, task_details, t) : e.student_id = s}
MissingEntriesOf(t, s) ==
    {e \in GetMissingStudents(students, task_details, t, NULL) : e.student_id = s}

\* C12: in every state reached by submit, set_grade, reset, add and delete,
\* for every task the listings get_submitted_students and get_missing_students
\* partition the roster: a roster student has exactly one entry in the two
\* together, it is in the submitted listing exactly when its stored status is
\* submitted (so right after submit_student or set_grade for it), and a
\* student outside the roster is in neither.
C12_Partition ==
    /\ \A t \in TaskIds, s \in StudentIds :
          IF s \in Roster
          THEN /\ Cardinality(SubmittedEntriesOf(t, s)) + Cardinality(MissingEntriesOf(t, s)) = 1
               /\ (SubmittedEntriesOf(t, s) # {}) <=>
                      (HasRow(task_details, t, s) /\ RowOf(task_details, t, s).status = "submitted")
          ELSE SubmittedEntriesOf(t, s) = {} /\ MissingEntriesOf(t, s) = {}
    /\ (lastOp.op \in {"submit_student", "set_grade"} /\ lastOp.sid \in Roster) =>
          /\ Cardinality(SubmittedEntriesOf(lastOp.task, lastOp.sid)) = 1
          /\ MissingEntriesOf(lastOp.task, lastOp.sid) = {}

\* C12 witness: one student of a roster of two has just been submitted and the
\* other is listed as missing under the same task.
C12_Witness ==
    /\ lastOp.op = "submit_student"
    /\ lastOp.sid \in Roster
    /\ Cardinality(Roster) = 2
    /\ \E s \in Roster \ {lastOp.sid} : MissingEntriesOf(lastOp.task, s) # {}

\* C17: right after submit_student(T, S) for an S that is not in the roster,
\* task_details has a row for (T, S) only if it had one before, and that row
\* is as it was.
C17_Original ==
    (lastOp.op = "submit_student" /\ lastOp.sid \notin Roster) =>
        /\ HasRow(task_details, lastOp.task, lastOp.sid) = lastOp.had
        /\ lastOp.had =>
              /\ RowOf(task_details, lastOp.task, lastOp.sid).status = lastOp.prev.status
              /\ RowOf(task_details, lastOp.task, lastOp.sid).grade = lastOp.prev.grade

\* The step is DatabaseManager.get_today_stats run by the tool of that name:
\* its first statement is task = self.get_current_task().
StatsToolStep ==
    \E call \in ToolCalls, listing \in BOOLEAN :
        call.name = "get_today_stats" /\ JsonLoads(call.arguments) /\ execute_tool(call, listing)

\* The task get_current_task returns on the tasks table ts on day d.
CurrentTaskOf(ts, d) == (CHOOSE got \in GetCurrentTask(ts, d) : TRUE)[1]

IdsOf(rows) == {rows[i] : i \in 1..Len(rows)}

\* C13: the result of get_students_by_id_range(lo, hi) holds exactly the stored
\* students whose id, read as an integer, is in [int(lo), int(hi)], each once,
\* in ascending order of the id (the id's text; for ids of the same length
\* that is the order of the integers), and it is the same for every order in
\* which the same students are stored.
C13_RangeQuery ==
    range_call.called =>
        LET r == range_call.result
            lo == CastInteger(range_call.start_id)
            hi == CastInteger(range_call.end_id)
        IN  /\ IdsOf(r) = {id \in IdsOf(range_call.students) :
                               lo <= CastInteger(id) /\ CastInteger(id) <= hi}
            /\ Len(r) = Cardinality(IdsOf(r))
            /\ \A i, j \in 1..Len(r) : i < j =>
                  /\ TextLess(r[i], r[j])
                  /\ Len(r[i]) = Len(r[j]) => CastInteger(r[i]) < CastInteger(r[j])
            /\ \A other \in StoredOrders :
                  IdsOf(other) = IdsOf(range_call.students) =>
                      GetStudentsByIdRange(other, range_call.start_id, range_call.end_id) = r

\* C13 witness: a call whose result has two students that are stored in the
\* other order, with a stored student outside the range.
C13_Witness ==
    /\ range_call.called
    /\ Len(range_call.result) >= 2
    /\ IdsOf(range_call.result) # IdsOf(range_call.students)
    /\ \E i, j \in 1..Len(range_call.students) :
          /\ i < j
          /\ range_call.students[i] \in IdsOf(range_call.result)
          /\ range_call.students[j] \in IdsOf(range_call.result)
          /\ TextLess(range_call.students[j], range_call.students[i])

\* The call of DatabaseManager a mutating tool's branch makes.
MutationOf(name) ==
    CASE name = "mark_student_submitted" -> "submit_student"
      [] name = "set_student_grade" -> "set_grade"
      [] OTHER -> name

\* C14: a mutating tool handler that has returned its success text has made
\* two calls, first the mutation (a transaction of its own, committed when the
\* call returns) and then refresh_all_pages, both before the result is
\* returned: the notification is never left out.
C14_MutationThenRefresh ==
    (lastOp.op = "tool" /\ lastOp.tool \in MutatingTools /\ lastOp.result = "ok") =>
        lastOp.steps = <<MutationOf(lastOp.tool), "refresh_all_pages">>

\* C14 witness: the tool delete_student has just succeeded for a student who
\* had records.
C14_Witness ==
    /\ lastOp.op = "tool"
    /\ lastOp.tool = "delete_student"
    /\ lastOp.result = "ok"
    /\ lastOp.had

QueryOps == {"get_task_details", "get_submitted_students", "get_missing_students",
             "get_student_history"}

\* C15: a step that is a read-only tool call or a ledger query leaves the
\* students, tasks and task_details tables as they were.
C15_Original ==
    [][((lastOp'.op = "tool" /\ lastOp'.tool \in ReadOnlyTools) \/ lastOp'.op \in QueryOps) =>
          /\ students' = students
          /\ tasks' = tasks
          /\ task_details' = task_details]_vars

\* ================================================ claims about the session
TurnsOf(msgs, w) ==
    LET OfW(t) == t.req = w
    IN  SelectSeq(msgs, OfW)

IsPrefix(a, b) == Len(a) <= Len(b) /\ SubSeq(b, 1, Len(a)) = a

\* The tool-role turns of msgs that answer the call id.
AnswersTo(msgs, id) == {k \in 1..Len(msgs) : msgs[k].role = "tool" /\ msgs[k].call_id = id}

\* Every tool call listed in a turn of request w (of any request when w = 0)
\* has exactly one tool-role turn with its id.
AllAnswered(msgs, w) ==
    \A i \in 1..Len(msgs) :
        (w = 0 \/ msgs[i].req = w) =>
            \A j \in 1..Len(msgs[i].calls) :
                Cardinality(AnswersTo(msgs, msgs[i].calls[j])) = 1

\* C5 as stated: once cancel_generation has returned for a request that was
\* streaming when it was called (and until the next send_message), messages
\* is as long as it was before that request's send_message.
C5_Original ==
    (chatlog.cancel # 0 /\ chatlog.streaming /\ mainpc = "loop") =>
        Len(messages) = workers[chatlog.cancel].len0

\* C5 amended: from the call of cancel_generation for a request that was
\* streaming, until the next send_message, messages holds of that request
\* exactly the turns it held when the streamed round began (its user turn and
\* the turns of the tool rounds completed before): the history of the round's
\* start is a prefix of messages, no later turn is the request's, and it is at
\* least one turn (the user turn, which stays) longer than before send_message.
C5_CancelKeepsRoundStart ==
    (chatlog.cancel # 0 /\ chatlog.streaming) =>
        /\ IsPrefix(chatlog.round_start, messages)
        /\ \A i \in (Len(chatlog.round_start) + 1)..Len(messages) :
              messages[i].req # chatlog.cancel
        /\ Len(chatlog.round_start) >= workers[chatlog.cancel].len0 + 1
        /\ messages[workers[chatlog.cancel].len0 + 1] =
              Turn("user", chatlog.cancel, << >>, NoId, << >>)

\* C5 witness: cancel_generation has returned for a request cancelled after a
\* fragment of its response had been streamed, and its worker has returned.
C5_Witness ==
    /\ chatlog.cancel # 0
    /\ chatlog.streaming
    /\ mainpc = "loop"
    /\ workers[chatlog.cancel].pc = "done"
    /\ workers[chatlog.cancel].full_response # << >>

\* C6: once cancel_generation was called for a request, no step appends a
\* turn of that request to messages, and the event loop's handling of an event
\* of that request's worker changes neither the placeholder bubble nor
\* is_generating nor the enabling of the input.
C6_Original ==
    [][\A w \in chatlog.cancelled_reqs :
          /\ TurnsOf(messages', w) = TurnsOf(messages, w)
          /\ (mainpc = "loop" /\ events # << >> /\ Head(events).w = w
                /\ events' = Tail(events))
             => (/\ ai_widget' = ai_widget
                 /\ is_generating' = is_generating
                 /\ input_enabled' = input_enabled)]_vars

\* C7: no dispatch the session makes raises: for every worker about to call
\* _execute_tool, the call returns a text.
C7_Original ==
    \A w \in WorkerIds :
        (workers[w].pc = "exec" /\ Len(workers[w].tool_messages) < Len(workers[w].tool_calls)) =>
            \A listing \in BOOLEAN :
                ~ExecuteTool(workers[w].tool_calls[Len(workers[w].tool_messages) + 1],
                             [students |-> students, tasks |-> tasks,
                              task_details |-> task_details],
                             current_task, today, listing).raised

\* C8: the history a worker has sent to the model (its messages_copy) answers
\* every tool call exactly once, and when a request's worker has ended every
\* tool call of that request in messages is answered exactly once.
C8_Original ==
    \A w \in WorkerIds :
        /\ workers[w].pc = "stream" => AllAnswered(workers[w].messages_copy, 0)
        /\ workers[w].pc \in {"done", "crashed"} => AllAnswered(messages, w)

\* C9: at most one worker thread is running _call_deepseek_api.
C9_Original == Cardinality({w \in WorkerIds : Alive(w)}) <= 1

\* C10: when the worker of the request in flight has ended by a network or
\* stream fault, the fault has been reported: the session is no longer
\* generating, or the worker's completion event is queued for the main thread.
C10_Original ==
    \A w \in WorkerIds :
        (workers[w].pc = "crashed" /\ workers[w].fault = "network" /\ w = thread) =>
            \/ ~is_generating
            \/ \E i \in 1..Len(events) : events[i].w = w /\ events[i].kind = "finish"

\* C18: in messages the turns are in the order of their requests: no turn of
\* an earlier request comes after the user turn of a later one.
C18_Original ==
    \A i, j \in 1..Len(messages) :
        (i < j /\ messages[i].role = "user") => messages[j].req >= messages[i].req

\* C19: a tool call that was in flight when cancel_generation was called has
\* no tool-role turn in messages.
C19_Original ==
    \A id \in chatlog.inflight : AnswersTo(messages, id) = {}

\* The assistant turns of request w in msgs, in order.
AssistantTurnsOf(msgs, w) ==
    LET AssistantOfW(t) == t.req = w /\ t.role = "assistant"
    IN  SelectSeq(msgs, AssistantOfW)

\* C25 as stated: once cancel_generation was called for a request, the
\* request's worker sends no further chat-completion request (it does not go
\* from the head of the loop to streaming, also not after a round of tool
\* calls), takes no further fragment or tool-call delta from the stream, and
\* appends no assistant turn to messages.
C25_Original ==
    [][\A w \in chatlog.cancelled_reqs :
          /\ ~(workers[w].pc = "send" /\ workers'[w].pc = "stream")
          /\ (workers[w].pc = "stream" /\ workers'[w].pc = "stream") =>
                /\ workers'[w].full_response = workers[w].full_response
                /\ workers'[w].tool_calls = workers[w].tool_calls
          /\ AssistantTurnsOf(messages', w) = AssistantTurnsOf(messages, w)]_vars

\* In msgs, every assistant turn that carries tool calls is followed by the
\* tool turns of its calls, one per call, in the order of the calls, each with
\* its call id, and by nothing else before them; with whole, all of them are
\* there, else those that are there.
ToolTurnsFollow(msgs, whole) ==
    \A i \in 1..Len(msgs) :
        (msgs[i].role = "assistant" /\ msgs[i].calls # << >>) =>
            \A j \in 1..Len(msgs[i].calls) :
                IF i + j <= Len(msgs)
                THEN /\ msgs[i + j].role = "tool"
                     /\ msgs[i + j].call_id = msgs[i].calls[j]
                     /\ msgs[i + j].req = msgs[i].req
                ELSE ~whole

\* C26 as stated: an assistant turn with tool calls carries no content and is
\* followed in messages by one tool turn per call, in the order of the calls,
\* each with its call id, with nothing between them; and a request is sent to
\* the model only with a history in which all of them are there.
C26_Original ==
    /\ \A i \in 1..Len(messages) :
          (messages[i].role = "assistant" /\ messages[i].calls # << >>) =>
              messages[i].content = << >>
    /\ ToolTurnsFollow(messages, FALSE)
    /\ \A w \in WorkerIds :
          workers[w].pc = "stream" => ToolTurnsFollow(workers[w].messages_copy, TRUE)

\* C27 as stated: whenever the event loop can take input (the main thread is
\* not inside cancel_generation, is_generating is false and the input field
\* is enabled), no worker thread is running _call_deepseek_api.
C27_Original ==
    (mainpc = "loop" /\ ~is_generating /\ input_enabled) =>
        \A w \in WorkerIds : ~Alive(w)

\* A worker's delete_student tool call for student s has returned.
DeleteToolDone(s) ==
    \E w \in WorkerIds :
        \E i \in 1..Len(workers[w].tool_messages) :
            /\ workers[w].tool_calls[i].name = "delete_student"
            /\ JsonLoads(workers[w].tool_calls[i].arguments)
            /\ ParsedArgs(workers[w].tool_calls[i].arguments).student_id = s

\* C28 as stated: when handle_input for student S has written, a worker's
\* delete_student tool call for S has returned, and S is not in the roster,
\* task_details has no row of S.
C28_Original ==
    (/\ mainpc = "loop"
     /\ lastOp.op \in {"submit_page_handle_input", "grade_page_handle_input"}
     /\ lastOp.result = "written"
     /\ DeleteToolDone(lastOp.sid)
     /\ lastOp.sid \notin Roster)
        => \A r \in task_details : r.student_id # lastOp.sid

\* C29 as stated: a step that adds a student under an id that was not in the
\* roster (DatabaseManager.add_student, or the tool add_student) leaves
\* get_task_details of every existing task with a row for the student, with
\* status missing and grade NULL, whatever ran before.
C29_Original ==
    [][(/\ \/ lastOp'.op = "add_student"
           \/ (lastOp'.op = "tool" /\ lastOp'.tool = "add_student" /\ lastOp'.result = "ok")
        /\ lastOp'.sid \notin DOMAIN students
        /\ lastOp'.sid \in DOMAIN students')
          => \A t \in {u.id : u \in tasks'} :
                /\ \E row \in GetTaskDetails(students', task_details', t) :
                      row.student_id = lastOp'.sid
                /\ \A row \in GetTaskDetails(students', task_details', t) :
                      row.student_id = lastOp'.sid =>
                          (row.status = "missing" /\ row.grade = NULL)]_vars

\* The tools that act on one student of the roster.
StudentTools == {"mark_student_submitted", "set_student_grade", "update_student",
                 "delete_student"}

\* C30 as stated: a call of mark_student_submitted, set_student_grade,
\* update_student or delete_student with a student_id that is not in the
\* roster returns a text that is not the tool's success message, and does not
\* raise.
C30_Original ==
    [][(/\ lastOp'.op = "tool"
        /\ lastOp'.tool \in StudentTools
        /\ lastOp'.sid \notin DOMAIN students)
          => lastOp'.result \notin {"ok", "raised"}]_vars

\* C31 as stated: the tool-calling loop of a request is bounded by the round
\* limit: no worker completes more rounds of tool calls than RoundLimit.
C31_Original ==
    \A w \in WorkerIds : workers[w].round <= RoundLimit

\* C32: a step in which a network or stream fault ends a worker's round
\* changes nothing in messages, and the round had appended nothing: the
\* request has one assistant turn for each round completed before, each with
\* tool calls and no content, and every tool call of the request is answered
\* exactly once (no tool turn is missing or extra).
C32_FaultLeavesHistory ==
    [][\A w \in WorkerIds :
          (/\ workers[w].pc # "crashed"
           /\ workers'[w].pc = "crashed"
           /\ workers'[w].fault = "network")
             => /\ messages' = messages
                /\ Len(AssistantTurnsOf(messages, w)) = workers[w].round
                /\ \A i \in 1..Len(messages) :
                      (messages[i].req = w /\ messages[i].role = "assistant") =>
                          (messages[i].content = << >> /\ messages[i].calls # << >>)
                /\ AllAnswered(messages, w)]_vars

\* C32 witness: a worker ended by a fault of the stream after a fragment of
\* the response had arrived, and the request has no assistant turn.
C32_Witness ==
    \E w \in WorkerIds :
        /\ workers[w].pc = "crashed"
        /\ workers[w].fault = "network"
        /\ workers[w].full_response # << >>
        /\ AssistantTurnsOf(messages, w) = << >>

\* The operation op was a submit, from the main thread's ledger call or from
\* the worker's tool mark_student_submitted.
IsSubmitOp(op) ==
    \/ op.op = "submit_student"
    \/ (op.op = "tool" /\ op.tool = "mark_student_submitted" /\ op.result = "ok")

\* The operation op was a set_grade, from the ledger call or from the tool
\* set_student_grade.
IsGradeOp(op) ==
    \/ op.op = "set_grade"
    \/ (op.op = "tool" /\ op.tool = "set_student_grade" /\ op.result = "ok")

\* The rows of td under keys other than (t, s).
OtherRows(td, t, s) == {r \in td : ~(r.task_id = t /\ r.student_id = s)}

\* C33: a submit and a set_grade with grade g on one key that commit one
\* right after the other, in either order and from either source (the ledger
\* call of the main thread, the tool of the worker), leave the row of the key
\* with status submitted and grade g; and the upsert that commits second
\* changes no row of another key.
C33_BothCommitOrders ==
    [][/\ (/\ IsSubmitOp(lastOp) /\ IsGradeOp(lastOp')
           /\ lastOp'.task = lastOp.task /\ lastOp'.sid = lastOp.sid)
          => /\ {r \in task_details' :
                    r.task_id = lastOp'.task /\ r.student_id = lastOp'.sid}
                  = {Row(lastOp'.task, lastOp'.sid, "submitted", lastOp'.grade)}
             /\ lastOp'.op = "set_grade" =>
                   OtherRows(task_details', lastOp'.task, lastOp'.sid)
                      = OtherRows(task_details, lastOp'.task, lastOp'.sid)
       /\ (/\ IsGradeOp(lastOp) /\ IsSubmitOp(lastOp')
           /\ lastOp'.task = lastOp.task /\ lastOp'.sid = lastOp.sid)
          => /\ {r \in task_details' :
                    r.task_id = lastOp'.task /\ r.student_id = lastOp'.sid}
                  = {Row(lastOp'.task, lastOp'.sid, "submitted", lastOp.grade)}
             /\ lastOp'.op = "submit_student" =>
                   OtherRows(task_details', lastOp'.task, lastOp'.sid)
                      = OtherRows(task_details, lastOp'.task, lastOp'.sid)]_vars

\* C33 witness: the ledger's set_grade has committed on the row of a student
\* of the roster that a submit had left submitted and without a grade, and
\* the row now has the grade.
C33_Witness ==
    /\ lastOp.op = "set_grade"
    /\ lastOp.prev.status = "submitted"
    /\ lastOp.prev.grade = NULL
    /\ lastOp.sid \in Roster
    /\ Row(lastOp.task, lastOp.sid, "submitted", lastOp.grade) \in task_details

\* The texts of the update events of worker w's current round in the queue.
SurfacedTexts(evs, w, round) ==
    {evs[i].text : i \in {k \in 1..Len(evs) :
                            evs[k].kind = "update" /\ evs[k].w = w /\ evs[k].round = round}}

\* C34: when a worker leaves the stream with no tool calls and not cancelled,
\* it emits the completion event with the whole response and then appends
\* exactly one assistant turn, whose content is the fragments of the round in
\* the order they arrived; and every buffer of the round queued for the
\* display is a prefix of the response as it stands, so of the final content.
C34_FinalTurnIsConcatenation ==
    [][\A w \in WorkerIds :
          /\ (workers'[w].pc \in {"stream", "check", "final"}) =>
                \A text \in SurfacedTexts(events', w, workers'[w].round) :
                    IsPrefix(text, workers'[w].full_response)
          /\ (workers[w].pc = "check" /\ workers'[w].pc = "final") =>
                /\ events' = Append(events,
                       [kind |-> "finish", w |-> w, text |-> workers[w].full_response,
                        is_system |-> FALSE, round |-> workers[w].round])
                /\ messages' = messages
          /\ (workers[w].pc = "final" /\ workers'[w].pc = "done") =>
                /\ messages' = Append(messages,
                       Turn("assistant", w, << >>, NoId, workers[w].full_response))
                /\ workers'[w].full_response = workers[w].full_response]_vars

\* C34 witness: a response of three fragments, not all the same, has become
\* the request's only assistant turn, and the session has completed.
C34_Witness ==
    \E w \in WorkerIds :
        /\ workers[w].pc = "done"
        /\ Len(workers[w].full_response) = 3
        /\ workers[w].full_response[1] # workers[w].full_response[2]
        /\ AssistantTurnsOf(messages, w)
              = <<Turn("assistant", w, << >>, NoId, workers[w].full_response)>>
        /\ ~is_generating
        /\ w \notin chatlog.cancelled_reqs

\* The text is neither a six-digit student id nor the easter egg.
IsFreeText(text) == ~IsStudentIdText(text) /\ Lower(text) # "assignflow"

\* C35 as stated: every input that is neither a six-digit id nor the easter
\* egg is passed to send_message, and after it the assistant's page is shown
\* with the page shown before as previous_page.
C35_Original ==
    [][\A text \in InputTexts :
          (IsFreeText(text) /\ process_input(text)) =>
              /\ routed'.to = "send_message"
              /\ page' = AiPage
              /\ previous_page' = page]_vars

\* C35 amended: with an API key configured such an input is passed to
\* send_message and the assistant's page is shown after it; the page left is
\* remembered as previous_page when another page was shown, and previous_page
\* keeps its value when the assistant's page was shown already. With no API
\* key the input is not passed on and the page shown stays.
C35_FreeTextToAssistant ==
    [][\A text \in InputTexts :
          (IsFreeText(text) /\ process_input(text)) =>
              IF api_key
              THEN /\ routed'.to = "send_message"
                   /\ page' = AiPage
                   /\ previous_page' = IF page = AiPage THEN previous_page ELSE page
                   /\ Len(messages') = Len(messages) + 1
                   /\ messages'[Len(messages')].role = "user"
              ELSE /\ routed'.to = "no_api_key"
                   /\ UNCHANGED <<page, previous_page, messages>>]_vars

\* C35 witness: a text that is no id was entered on the grade page, and the
\* assistant's page is shown with the grade page remembered.
C35_Witness ==
    /\ IsFreeText(routed.text)
    /\ routed.to = "send_message"
    /\ routed.page = 1
    /\ page = AiPage
    /\ previous_page = 1
    /\ is_generating

\* C35 counterexample state: with no API key the text was not passed on and
\* the page shown is not the assistant's.
C35_NoKeyWitness ==
    /\ IsFreeText(routed.text)
    /\ routed.to = "no_api_key"
    /\ page # AiPage

\* The step is worker w's execution of a tool call whose handler went on to
\* MainWindow.refresh_all_pages.
RefreshedByWorker(w) ==
    /\ workers[w].pc = "exec"
    /\ Len(workers'[w].tool_messages) = Len(workers[w].tool_messages) + 1
    /\ LET call == workers[w].tool_calls[Len(workers'[w].tool_messages)]
       IN  /\ "refresh_all_pages" \in
                 {HandlerCalls(call.name)[i] : i \in 1..Len(HandlerCalls(call.name))}
           /\ workers'[w].tool_messages[Len(workers'[w].tool_messages)].content = <<"ok">>

\* C36: a worker never updates the display itself: a step of a worker that
\* brings about a display update (streamed text, completion, the refresh after
\* a mutating tool call) queues an event for the main thread, and the widget
\* of the answer changes only in steps of the main thread.
C36_Original ==
    [][\A w \in WorkerIds :
          /\ RefreshedByWorker(w) => Len(events') = Len(events) + 1
          /\ workers'[w] # workers[w] => ai_widget' = ai_widget]_vars

\* How often s is in the unknown list ul.
CountIn(ul, s) == Cardinality({i \in 1..Len(ul) : ul[i] = s})

\* C37: a student id entered on the submit page that is not in the roster is
\* reported and nothing is attempted: the roster, the tasks and the records of
\* task_details stay as they are, and the id is in the unknown list exactly
\* once after it, however often it was entered.
C37_Original ==
    [][\A text \in StudentIds :
          (page = 0 /\ text \notin Roster /\ process_input(text)) =>
              /\ students' = students
              /\ tasks' = tasks
              /\ task_details' = task_details
              /\ CountIn(unknown_list', text) = 1]_vars

\* The rows of td of tasks other than t.
RowsOfOtherTasks(td, t) == {r \in td : r.task_id # t}

\* C38: submit_student(t, s) and set_grade(t, s, g) change no row but the one
\* keyed (t, s) and leave the roster and the tasks as they are; the reset of
\* create_new_task changes rows of the task it resets only, which is the
\* current task after it.
C38_WritesAreKeyed ==
    [][/\ \A t \in TaskIds, s \in StudentIds :
             submit_student(t, s) =>
                 /\ OtherRows(task_details', t, s) = OtherRows(task_details, t, s)
                 /\ students' = students /\ tasks' = tasks
       /\ \A t \in TaskIds, s \in StudentIds, g \in Grades :
             set_grade(t, s, g) =>
                 /\ OtherRows(task_details', t, s) = OtherRows(task_details, t, s)
                 /\ students' = students /\ tasks' = tasks
       /\ create_new_task =>
             /\ RowsOfOtherTasks(task_details', lastOp'.task)
                   = RowsOfOtherTasks(task_details, lastOp'.task)
             /\ current_task'.id = lastOp'.task
             /\ students' = students]_vars

\* C38 witness: a task was reset while another task has a graded row and the
\* task reset had rows to reset.
C38_Witness ==
    /\ lastOp.op = "create_new_task"
    /\ lastOp.had
    /\ \E r \in task_details : r.task_id # lastOp.task /\ r.grade # NULL

\* C39: in every reachable state at most one task has a given date, however
\* the main thread's create_new_task and clear_all_data interleave with a
\* worker's get_today_stats.
C39_Original ==
    \A t1, t2 \in tasks : t1.date = t2.date => t1 = t2

\* The rows of td of student s.
RowsOfStudent(td, s) == {r \in td : r.student_id = s}

\* The roster after the step is the one before it with s carrying profile p.
RosterWith(s, p) ==
    /\ DOMAIN students' = DOMAIN students \cup {s}
    /\ students'[s] = p
    /\ \A x \in DOMAIN students \ {s} : students'[x] = students[x]

\* C40: add_student inserts or updates by student_id, from the ledger and
\* from the tool: after it the roster has the student once, with the name and
\* class of this add, the other students are as they were, and when the id
\* was in the roster already the student's rows of task_details are unchanged.
C40_Original ==
    [][/\ \A s \in StudentIds, p \in Profiles :
             add_student(s, p) =>
                 /\ RosterWith(s, p)
                 /\ s \in Roster =>
                       RowsOfStudent(task_details', s) = RowsOfStudent(task_details, s)
       /\ \A call \in ToolCalls, listing \in BOOLEAN :
             (/\ call.name = "add_student"
              /\ execute_tool(call, listing)
              /\ lastOp'.result = "ok") =>
                 LET a == ParsedArgs(call.arguments)
                 IN  /\ RosterWith(a.student_id,
                            [name |-> a.name,
                             class |-> IF "class" \in a.keys THEN a.class
                                       ELSE DefaultClass(a.student_id)])
                     /\ a.student_id \in Roster =>
                           RowsOfStudent(task_details', a.student_id)
                              = RowsOfStudent(task_details, a.student_id)]_vars
====
